---- MODULE Spec2Model ----
(***************************************************************************)
(* Model of the full-duplex audio pipeline: the SPSC RingBuffer            *)
(* (RingBuffer.h), the playback pull (FullDuplexEngine::pullTo) and the    *)
(* engine lifecycle (FullDuplexEngine::start / stop / ioThreadFunc).       *)
(*                                                                         *)
(* Specifications:                                                         *)
(*   SpecRing  one producer calling writeInterleaved and one consumer      *)
(*             calling readInterleaved on an initialised ring, every load, *)
(*             memcpy and store a step of its own                          *)
(*   SpecInit  RingBuffer::init / nextPow2 on 32-bit arguments             *)
(*   SpecPull  pullTo on the output ring while the producer writes         *)
(*   SpecLife  start() / stop() on the control thread, the processing      *)
(*             thread and the streams                                      *)
(*   SpecPipe  the processing thread of a started engine against the       *)
(*             playback callback, the rings as frame counters              *)
(*   SpecStft  pushTimeDomain / popTimeDomain calls on a StftProcessor,    *)
(*             every sample known by its place in the input                *)
(*   SpecHop   the hop loop of the processing thread on that processor     *)
(*   SpecRes   process() calls on a Resampler3x                            *)
(***************************************************************************)
EXTENDS Integers, Sequences, FiniteSets, TLC

\* ------------------------------------------------------------------ bounds
\* largest capacityFrames handed to init in SpecRing / SpecPull
MaxCapReq == 3
\* largest channel count handed to init in SpecRing / SpecPull
MaxChannels == 2
\* largest frame count a caller asks writeInterleaved / readInterleaved for
MaxReq == 3
\* total number of frames the producer offers over a run
MaxTotal == 5
\* SpecPull: largest capacityFrames of the output ring
MaxPullCapReq == 1
\* SpecPull: largest burst the processing thread writes to the output ring
MaxPullWrite == 2
\* SpecPull: total number of frames the processing thread offers over a run
MaxPullTotal == 3
\* largest numFrames the playback callback asks pullTo for
MaxPull == 3
\* largest value of the underflow counter followed
MaxUnderflows == 3

\* warm-up window after start(), in ms
kWarmupMs == 300

VARIABLES
    \* RingBuffer fields
    mCapacityFrames, mChannels, mMask, mData, mRead, mWrite,
    \* the producer's and the consumer's position and locals inside a call
    prod, cons,
    \* the producer's source buffer, and what was accepted / returned so far
    src, offered, accepted, returned,
    \* the arguments and the outcome of the last RingBuffer::init call
    initArgs, initRet,
    \* pullTo: position and locals of the call in progress, the playback
    \* callback's buffer, mUnderflows, steady_clock and mStartTime (in ms)
    pull, out, mUnderflows, now, mStartTime,
    \* FullDuplexEngine: the two stream handles (set or null) and what the
    \* playback stream reports, whether each stream is started
    mIn, mOut, streamCfg, inStarted, outStarted,
    \* mRunning, mThread ("none": not joinable, "running", "finished":
    \* joinable and returned), whether std::terminate was called
    mRunning, mThread, terminated,
    \* the control thread inside start() / stop(), the processing thread
    \* inside ioThreadFunc
    ctl, io,
    \* the three rings of the pipeline as frame counters, mOverflows, the
    \* StftProcessor counters
    mInRing, mOutRing, mMid16kMono, mOverflows, mStft,
    \* what the processing thread asked each ring to take and what the ring
    \* took, and the frames it read from the input ring in full bursts
    tally,
    \* StftProcessor: the overlap-add ring and the normalisation ring (the
    \* cells that are not zero), their cursors, and the pushTimeDomain or
    \* popTimeDomain call in progress
    mOlaBuf, mNormBuf, mOlaWrite, mOlaRead, stc,
    \* StftProcessor: the staging buffer of the hop being collected and the
    \* history of the last 384 samples of the hops processed (the entries
    \* that are not zero)
    mHopBuf, mHist384,
    \* a Resampler3x object and the process() call in progress on it
    resamp, rcall,
    \* number of start() calls and of capture reads that delivered frames
    starts, reads, pulls

ringVars == <<mCapacityFrames, mChannels, mMask, mData, mRead, mWrite>>
callVars == <<prod, cons, src, offered, accepted, returned>>
initVars == <<initArgs, initRet>>
\* everything outside the ring and the two calls in progress on it
pullVars == <<pull, out, mUnderflows, now, mStartTime>>
streamVars == <<mIn, mOut, streamCfg, inStarted, outStarted>>
threadVars == <<mRunning, mThread, terminated>>
pipeVars == <<mInRing, mOutRing, mMid16kMono, mOverflows, mStft, tally>>
olaVars == <<mOlaBuf, mNormBuf, mOlaWrite, mOlaRead, stc>>
histVars == <<mHopBuf, mHist384>>
resVars == <<resamp, rcall>>
lifeVars == <<streamVars, threadVars, ctl, io, pipeVars, olaVars, histVars,
              resVars, starts, reads, pulls>>
outerVars == <<initVars, pullVars, lifeVars>>
vars == <<ringVars, callVars, outerVars>>

\* ----------------------------------------------------------------- helpers
Min(a, b) == IF a < b THEN a ELSE b
Max(a, b) == IF a > b THEN a ELSE b

RECURSIVE Pow2(_)
Pow2(k) == IF k = 0 THEN 1 ELSE 2 * Pow2(k - 1)

\* v >> k on a non-negative int32_t
Shr(v, k) == v \div Pow2(k)

\* a | b on non-negative int32_t, bit by bit over the 31 value bits
RECURSIVE BitOrN(_, _, _)
BitOrN(a, b, bits) ==
    IF bits = 0 THEN 0
    ELSE (IF (a % 2 = 1) \/ (b % 2 = 1) THEN 1 ELSE 0)
         + 2 * BitOrN(a \div 2, b \div 2, bits - 1)
BitOr(a, b) == BitOrN(a, b, 31)

\* a & mask for a non-negative counter and mask = 2^k - 1
BitAndMask(a, mask) == a % (mask + 1)

IntMax32 == 2147483647
IntMin32 == -2147483647 - 1

\* ------------------------------------------------- RingBuffer: pure parts
\* v |= v >> 1; v |= v >> 2; v |= v >> 4; v |= v >> 8; v |= v >> 16
OrShr(v, k) == BitOr(v, Shr(v, k))
Smear(v) == OrShr(OrShr(OrShr(OrShr(OrShr(v, 1), 2), 4), 8), 16)

\* nextPow2(v) for v > 0: the set of values a build can return.  v++ on
\* INT_MAX is signed overflow: a wrapping build gets INT_MIN and the final
\* test turns it into 2; a build that folds the test away returns INT_MIN.
nextPow2(v) ==
    IF v - 1 < 0 THEN {2}   \* the sign bit smears to -1, v++ gives 0
    ELSE LET m == Smear(v - 1)
         IN  IF m = IntMax32 THEN {2, IntMin32}
             ELSE {IF m + 1 < 2 THEN 2 ELSE m + 1}

\* init: if (capacityFrames <= 0 || channels <= 0) return false
RbInitOkNonNegative(capReq, ch) == ~(capReq < 0 \/ ch < 0)
RbInitOk(capReq, ch) == ~(capReq <= 0 \/ ch <= 0)

\* availableToRead() from the two loaded counters: static_cast<int32_t>(w - r)
\* (the counters of the model stay far below 2^31, where the cast is the
\* signed difference)
availableToRead(r, w) == w - r

\* availableToWrite() from the two loaded counters
availableToWriteOneMore(r, w) == mCapacityFrames - availableToRead(r, w) + 1
availableToWrite(r, w) == mCapacityFrames - availableToRead(r, w)

\* frames = max(0, min(frames, availableToWrite()))
ClampWriteNoClamp(n, r, w) == Max(0, n)
ClampWrite(n, r, w) == Max(0, Min(n, availableToWrite(r, w)))

\* frames = max(0, min(frames, availableToRead()))
ClampReadNoFloor(n, r, w) == Min(n, availableToRead(r, w))
ClampRead(n, r, w) == Max(0, Min(n, availableToRead(r, w)))

\* first = min(frames, mCapacityFrames - (pos & mMask))
FirstSeg(frames, pos) ==
    Min(frames, mCapacityFrames - BitAndMask(pos, mMask))

\* offset of the second segment in the caller's buffer: first * mChannels
SegBOffsetNoChannels(first) == first
SegBOffset(first) == first * mChannels

\* the value the release store publishes: counter + frames
Publish(pos, frames, first) == pos + frames

\* memcpy(&mData[base], s, ...): s is the sequence of samples copied
CopyIn(data, base, s) ==
    [i \in DOMAIN data |->
        IF i >= base /\ i < base + Len(s) THEN s[i - base + 1] ELSE data[i]]

\* memcpy(dst, &mData[base], cnt samples)
CopyOut(data, base, cnt) == [i \in 1..cnt |-> data[base + i - 1]]

\* samples lo+1 .. lo+cnt of a caller's buffer
Part(s, lo, cnt) == [i \in 1..cnt |-> s[lo + i]]

\* the statement order of writeInterleaved / readInterleaved after the
\* relaxed load of the own counter: memcpy, wrap memcpy if any, then the
\* release store, then return
StepAfterStoreFirst(pc, second) ==
    CASE pc = "load"  -> "store"
      [] pc = "store" -> "copyA"
      [] pc = "copyA" -> IF second > 0 THEN "copyB" ELSE "ret"
      [] pc = "copyB" -> "ret"
StepAfter(pc, second) ==
    CASE pc = "load"  -> "copyA"
      [] pc = "copyA" -> IF second > 0 THEN "copyB" ELSE "store"
      [] pc = "copyB" -> "store"
      [] pc = "store" -> "ret"

\* std::vector<float>(frames * channels), value-initialised
ZeroData(frames, channels) == [i \in 0..(frames * channels - 1) |-> 0]

IdleCall == [pc |-> "idle", n |-> 0, r |-> 0, w |-> 0, frames |-> 0,
             first |-> 0, second |-> 0, ret |-> 0, r0 |-> 0, w0 |-> 0,
             buf |-> <<>>]

IdlePull == [pc |-> "idle", numFrames |-> 0, total |-> 0, ret |-> 0,
             reads |-> 0, base |-> 0, u0 |-> 0, t0 |-> 0]

\* a ring of the pipeline followed by its frame counters only
NoRing == [cap |-> 0, ch |-> 1, rd |-> 0, wr |-> 0]

IdleCtl == [pc |-> "idle", op |-> "none", ret |-> FALSE, was |-> FALSE,
            entryRunning |-> FALSE, startsIssued |-> 0, spawned |-> FALSE,
            rollback |-> FALSE, stopsIssued |-> {}, midBurst |-> FALSE]

ZeroTally == [inReq |-> 0, inAcc |-> 0, inRead |-> 0, monoReq |-> 0,
              monoAcc |-> 0, outReq |-> 0, outAcc |-> 0]

\* no StftProcessor call in progress
IdleStc == [pc |-> "idle", op |-> "none", n |-> 0, idx |-> 0, ret |-> 0,
            out |-> <<>>, calls |-> 0, h0 |-> 0]

\* samples in the analysis frame: 384 of history, 96 of the hop, after a
\* pad of 32 zeros
kHist == 384
kPad == 32

\* a sample of the input is known by its place in the stream pushed: 0 is
\* the value 0.0f, j + 1 the input sample of index j (from 0)
InputAt(j) == IF j >= 0 THEN j + 1 ELSE 0

\* entry i of mHopBuf or mHist384: 0.0f unless written
At(buf, i) == IF i \in DOMAIN buf THEN buf[i] ELSE 0

\* StftProcessor::StftProcessor(): counters 0, both rings all zero, cursors 0,
\* mHopBuf and mHist384 all zero
StftConstructed ==
    /\ mStft = [pushed |-> 0, popped |-> 0, hops |-> 0, avail |-> 0,
                hopFill |-> 0]
    /\ mOlaBuf = <<>>
    /\ mNormBuf = <<>>
    /\ mOlaWrite = 0
    /\ mOlaRead = 0
    /\ stc = IdleStc
    /\ mHopBuf = <<>>
    /\ mHist384 = <<>>

IdleIo == [pc |-> "none", fpb |-> 0, got |-> 0]

\* no Resampler3x::process call in progress
IdleRcall == [pc |-> "idle", op |-> "none", in |-> <<>>, inFrames |-> 0,
              outMax |-> 0,
              out |-> <<>>, ret |-> 0, prev0 |-> 0, had0 |-> FALSE]

\* Resampler3x(Mode m), and reset(): mPrevSample = 0.0f, mHadPrev = false
ResamplerReset(m) == [mMode |-> m, mPrevSample |-> 0, mHadPrev |-> FALSE]

ResamplerConstructed ==
    /\ resamp = ResamplerReset("DownBy3")
    /\ rcall = IdleRcall

\* a FullDuplexEngine after construction: no streams, no thread, rings not
\* initialised, a fresh StftProcessor
EngineConstructed ==
    /\ mIn = FALSE
    /\ mOut = FALSE
    /\ streamCfg = [ch |-> 0, fpb |-> 0, sr |-> 0]
    /\ inStarted = FALSE
    /\ outStarted = FALSE
    /\ mRunning = FALSE
    /\ mThread = "none"
    /\ terminated = FALSE
    /\ ctl = IdleCtl
    /\ io = IdleIo
    /\ mInRing = NoRing
    /\ mOutRing = NoRing
    /\ mMid16kMono = NoRing
    /\ mOverflows = 0
    /\ StftConstructed
    /\ ResamplerConstructed
    /\ tally = ZeroTally
    /\ starts = 0
    /\ reads = 0
    /\ pulls = 0

\* the n frames a producer hands to one call: fresh sample values, frame by
\* frame, channel by channel
FreshFrames(from, n) ==
    [i \in 1..(n * mChannels) |-> from * mChannels + i]

\* RingBuffer::init(capacityFrames, channels) with valid arguments, on a
\* build where nextPow2 returned cap
InitRing(capReq, ch) ==
    \E cap \in nextPow2(capReq) :
        /\ cap > 0
        /\ mChannels = ch
        /\ mCapacityFrames = cap
        /\ mMask = cap - 1
        /\ mData = ZeroData(cap, ch)
        /\ mRead = 0
        /\ mWrite = 0

InitRingSpec ==
    /\ \E capReq \in 1..MaxCapReq, ch \in 1..MaxChannels :
          /\ InitRing(capReq, ch)
          /\ initArgs = <<capReq, ch>>
    /\ prod = IdleCall
    /\ cons = IdleCall
    /\ src = <<>>
    /\ offered = 0
    /\ accepted = <<>>
    /\ returned = <<>>
    /\ initRet = "true"
    /\ pull = IdlePull
    /\ out = <<>>
    /\ mUnderflows = 0
    /\ now = 0
    /\ mStartTime = 0
    /\ EngineConstructed

\* ------------------------------------------- RingBuffer::writeInterleaved
\* the producer calls writeInterleaved(src, n) on n fresh frames
BeginWrite(n) ==
    /\ prod' = [IdleCall EXCEPT !.pc = "availR", !.n = n,
                                !.r0 = mRead, !.w0 = mWrite]
    /\ src' = FreshFrames(offered, Max(0, n))
    /\ offered' = offered + Max(0, n)

WriteCall ==
    /\ prod.pc = "idle"
    /\ \E n \in -1..MaxReq :
        /\ offered + Max(0, n) <= MaxTotal
        /\ BeginWrite(n)
    /\ UNCHANGED <<ringVars, cons, accepted, returned,
                   outerVars>>

\* availableToRead(): r = mRead.load(acquire)
WriteAvailLoadR ==
    /\ prod.pc = "availR"
    /\ prod' = [prod EXCEPT !.pc = "availW", !.r = mRead]
    /\ UNCHANGED <<ringVars, cons, src, offered, accepted, returned,
                   outerVars>>

\* availableToRead(): w = mWrite.load(acquire); the clamp; return 0 if empty
WriteAvailLoadW ==
    /\ prod.pc = "availW"
    /\ LET f == ClampWrite(prod.n, prod.r, mWrite)
       IN  prod' = [prod EXCEPT !.pc = IF f = 0 THEN "ret" ELSE "load",
                                !.w = mWrite, !.frames = f, !.ret = 0]
    /\ UNCHANGED <<ringVars, cons, src, offered, accepted, returned,
                   outerVars>>

\* w = mWrite.load(relaxed); first / second
WriteLoadW ==
    /\ prod.pc = "load"
    /\ LET f1 == FirstSeg(prod.frames, mWrite)
       IN  prod' = [prod EXCEPT !.w = mWrite, !.first = f1,
                                !.second = prod.frames - f1,
                                !.pc = StepAfter("load", prod.frames - f1)]
    /\ UNCHANGED <<ringVars, cons, src, offered, accepted, returned,
                   outerVars>>

\* memcpy(dstA, src, first * mChannels)
WriteCopyA ==
    /\ prod.pc = "copyA"
    /\ mData' = CopyIn(mData, BitAndMask(prod.w, mMask) * mChannels,
                       Part(src, 0, prod.first * mChannels))
    /\ prod' = [prod EXCEPT !.pc = StepAfter("copyA", prod.second)]
    /\ UNCHANGED <<mCapacityFrames, mChannels, mMask, mRead, mWrite,
                   cons, src, offered, accepted, returned,
                   outerVars>>

\* if (second > 0) memcpy(mData.data(), src + first * mChannels, second * ...)
WriteCopyB ==
    /\ prod.pc = "copyB"
    /\ mData' = CopyIn(mData, 0,
                       Part(src, SegBOffset(prod.first),
                            prod.second * mChannels))
    /\ prod' = [prod EXCEPT !.pc = StepAfter("copyB", prod.second)]
    /\ UNCHANGED <<mCapacityFrames, mChannels, mMask, mRead, mWrite,
                   cons, src, offered, accepted, returned,
                   outerVars>>

\* mWrite.store(w + frames, release); the call returns frames
WriteStore ==
    /\ prod.pc = "store"
    /\ mWrite' = Publish(prod.w, prod.frames, prod.first)
    /\ prod' = [prod EXCEPT !.pc = StepAfter("store", prod.second),
                            !.ret = prod.frames]
    /\ accepted' = accepted \o Part(src, 0, prod.frames * mChannels)
    /\ UNCHANGED <<mCapacityFrames, mChannels, mMask, mData, mRead,
                   cons, src, offered, returned,
                   outerVars>>

\* the call has returned prod.ret to the producer
WriteReturn ==
    /\ prod.pc = "ret"
    /\ prod' = IdleCall
    /\ src' = <<>>
    /\ UNCHANGED <<ringVars, cons, offered, accepted, returned,
                   outerVars>>

WriteBody ==
    \/ WriteAvailLoadR \/ WriteAvailLoadW \/ WriteLoadW
    \/ WriteCopyA \/ WriteCopyB \/ WriteStore \/ WriteReturn

ProducerStep == WriteCall \/ WriteBody

\* -------------------------------------------- RingBuffer::readInterleaved
\* the consumer calls readInterleaved(dst, n)
BeginRead(n) ==
    cons' = [IdleCall EXCEPT !.pc = "availR", !.n = n,
                             !.r0 = mRead, !.w0 = mWrite]

ReadCall ==
    /\ cons.pc = "idle"
    /\ \E n \in -1..MaxReq : BeginRead(n)
    /\ UNCHANGED <<ringVars, prod, src, offered, accepted, returned,
                   outerVars>>

\* availableToRead(): r = mRead.load(acquire)
ReadAvailLoadR ==
    /\ cons.pc = "availR"
    /\ cons' = [cons EXCEPT !.pc = "availW", !.r = mRead]
    /\ UNCHANGED <<ringVars, prod, src, offered, accepted, returned,
                   outerVars>>

\* availableToRead(): w = mWrite.load(acquire); the clamp; return 0 if empty
ReadAvailLoadW ==
    /\ cons.pc = "availW"
    /\ LET f == ClampRead(cons.n, cons.r, mWrite)
       IN  cons' = [cons EXCEPT !.pc = IF f = 0 THEN "ret" ELSE "load",
                                !.w = mWrite, !.frames = f, !.ret = 0]
    /\ UNCHANGED <<ringVars, prod, src, offered, accepted, returned,
                   outerVars>>

\* r = mRead.load(relaxed); first / second
ReadLoadR ==
    /\ cons.pc = "load"
    /\ LET f1 == FirstSeg(cons.frames, mRead)
       IN  cons' = [cons EXCEPT !.r = mRead, !.first = f1,
                                !.second = cons.frames - f1,
                                !.pc = StepAfter("load", cons.frames - f1)]
    /\ UNCHANGED <<ringVars, prod, src, offered, accepted, returned,
                   outerVars>>

\* memcpy(dst, srcA, first * mChannels)
ReadCopyA ==
    /\ cons.pc = "copyA"
    /\ cons' = [cons EXCEPT
                  !.buf = CopyOut(mData, BitAndMask(cons.r, mMask) * mChannels,
                                  cons.first * mChannels),
                  !.pc = StepAfter("copyA", cons.second)]
    /\ UNCHANGED <<ringVars, prod, src, offered, accepted, returned,
                   outerVars>>

\* if (second > 0) memcpy(dst + first * mChannels, mData.data(), second * ...)
ReadCopyB ==
    /\ cons.pc = "copyB"
    /\ cons' = [cons EXCEPT
                  !.buf = Part(cons.buf, 0, SegBOffset(cons.first))
                          \o CopyOut(mData, 0, cons.second * mChannels),
                  !.pc = StepAfter("copyB", cons.second)]
    /\ UNCHANGED <<ringVars, prod, src, offered, accepted, returned,
                   outerVars>>

\* mRead.store(r + frames, release); the call returns frames
ReadStore ==
    /\ cons.pc = "store"
    /\ mRead' = Publish(cons.r, cons.frames, cons.first)
    /\ cons' = [cons EXCEPT !.pc = StepAfter("store", cons.second),
                            !.ret = cons.frames]
    /\ returned' = returned \o cons.buf
    /\ UNCHANGED <<mCapacityFrames, mChannels, mMask, mData, mWrite,
                   prod, src, offered, accepted,
                   outerVars>>

\* the call has returned cons.ret and the frames in cons.buf to its caller
ReadReturn ==
    /\ cons.pc = "ret"
    /\ cons' = IdleCall
    /\ UNCHANGED <<ringVars, prod, src, offered, accepted, returned,
                   outerVars>>

ReadBody ==
    \/ ReadAvailLoadR \/ ReadAvailLoadW \/ ReadLoadR
    \/ ReadCopyA \/ ReadCopyB \/ ReadStore

ConsumerStep == ReadCall \/ ReadBody \/ ReadReturn

NextRing == ProducerStep \/ ConsumerStep

SpecRing == InitRingSpec /\ [][NextRing]_vars

\* ------------------------------------------------------- claims on the ring
\* the ring slots of frames pos .. pos + frames - 1
Slots(pos, frames) == {BitAndMask(pos + i, mMask) : i \in 0..(frames - 1)}

\* a call is between the load of its own counter and its release store:
\* its payload copy is in progress
Copying(call) == call.pc \in {"copyA", "copyB", "store"}

IsPrefix(s, t) ==
    /\ Len(s) <= Len(t)
    /\ \A i \in 1..Len(s) : s[i] = t[i]

\* C1: under any interleaving of one producer in writeInterleaved and one
\* consumer in readInterleaved, write_pos - read_pos stays in
\* [0, capacity_frames]
C1_FillInRange ==
    /\ mWrite - mRead >= 0
    /\ mWrite - mRead <= mCapacityFrames

\* C1 witness: a write has just filled the ring, after the read counter has
\* moved, while a read is copying
C1_Witness ==
    /\ mWrite - mRead = mCapacityFrames
    /\ mRead > 0
    /\ prod.pc = "ret" /\ prod.ret > 0
    /\ Copying(cons)

\* C2: the consumer only copies slots already published by a write_pos store,
\* the producer only copies into slots already released by a read_pos store,
\* and the slot ranges of a concurrent write and read are disjoint
C2_PublicationSafety ==
    /\ Copying(cons) => /\ cons.frames > 0
                        /\ cons.r = mRead
                        /\ cons.r + cons.frames <= mWrite
    /\ Copying(prod) => /\ prod.frames > 0
                        /\ prod.w = mWrite
                        /\ prod.w + prod.frames <= mRead + mCapacityFrames
    /\ (Copying(cons) /\ Copying(prod)) =>
           Slots(cons.r, cons.frames) \cap Slots(prod.w, prod.frames) = {}

\* C2 witness: a write that wraps around the end of the storage is being
\* copied while a read is being copied
C2_Witness ==
    /\ prod.pc \in {"copyA", "copyB"}
    /\ cons.pc \in {"copyA", "copyB"}
    /\ prod.second > 0
    /\ mRead > 0

\* C3: the frames returned by reads are, sample by sample, a prefix of the
\* frames accepted by writes, also across writes and reads split in two
\* segments at the end of the storage
C3_FifoPrefix == IsPrefix(returned, accepted)

\* C3 witness: a write split in two segments and a read split in two
\* segments have both completed, and the read returned frames
C3_Witness ==
    /\ prod.pc = "ret" /\ prod.second > 0
    /\ cons.pc = "ret" /\ cons.second > 0
    /\ Len(returned) >= 2 * mChannels
    /\ mChannels > 1

\* what a call asking for n frames may return when avail frames were free /
\* stored at some point of the call
Clamped(n, avail) == Max(0, Min(n, avail))

C4_AtReturn ==
    /\ prod.pc = "ret" =>
        /\ prod.ret >= Clamped(prod.n, mCapacityFrames - (prod.w0 - prod.r0))
        /\ prod.ret <= Clamped(prod.n, mCapacityFrames - (prod.w0 - mRead))
        /\ mWrite = prod.w0 + prod.ret
    /\ cons.pc = "ret" =>
        /\ cons.ret >= Clamped(cons.n, cons.w0 - cons.r0)
        /\ cons.ret <= Clamped(cons.n, mWrite - cons.r0)
        /\ mRead = cons.r0 + cons.ret

C4_OtherCounterKept ==
    /\ prod' # prod => mRead' = mRead
    /\ cons' # cons => mWrite' = mWrite

\* C4: writeInterleaved(src, n) returns min(n, availableToWrite()) (0 for
\* n <= 0; availableToWrite() taken between the call and the return, so
\* exactly the free space when the consumer did not move), advances
\* write_pos by the returned count and never changes read_pos;
\* readInterleaved symmetrically
C4_Clamp == [](C4_AtReturn) /\ [][C4_OtherCounterKept]_vars

\* C4 witness: a write and a read have both returned fewer frames than asked
C4_Witness ==
    /\ prod.pc = "ret" /\ prod.ret > 0 /\ prod.ret < prod.n
    /\ cons.pc = "ret" /\ cons.ret > 0 /\ cons.ret < cons.n

\* --------------------------------------------------------- RingBuffer::init
\* In SpecInit the storage is modelled by its shape only,
\* <<frames, channels>>: init takes any 32-bit capacity.
InitCapacities ==
    {-1, 0, 1, 2, 3, 4, 5, 8, 9, 3200, 9600, 65536, 65537,
     1073741823, 1073741824, 1073741825, IntMax32}
InitChannels == {0, 1, 2}

\* a RingBuffer after construction
InitInitSpec ==
    /\ mChannels = 1
    /\ mCapacityFrames = 0
    /\ mMask = 0
    /\ mData = <<0, 1>>
    /\ mRead = 0
    /\ mWrite = 0
    /\ prod = IdleCall
    /\ cons = IdleCall
    /\ src = <<>>
    /\ offered = 0
    /\ accepted = <<>>
    /\ returned = <<>>
    /\ initArgs = <<0, 0>>
    /\ initRet = "none"
    /\ pull = IdlePull
    /\ out = <<>>
    /\ mUnderflows = 0
    /\ now = 0
    /\ mStartTime = 0
    /\ EngineConstructed

\* init(capacityFrames, channels) with a non-positive argument: return false
InitReject ==
    /\ \E capReq \in InitCapacities, ch \in InitChannels :
        /\ ~RbInitOk(capReq, ch)
        /\ initArgs' = <<capReq, ch>>
    /\ initRet' = "false"
    /\ UNCHANGED <<ringVars, callVars, pullVars, lifeVars>>

\* init(capacityFrames, channels) with positive arguments.  With a negative
\* capacity out of nextPow2, mMask wraps and the resize to
\* size_t(capacity) * channels throws, so init does not return.
InitAccept ==
    /\ \E capReq \in InitCapacities, ch \in InitChannels :
        /\ RbInitOk(capReq, ch)
        /\ initArgs' = <<capReq, ch>>
        /\ mChannels' = ch
        /\ \E cap \in nextPow2(capReq) :
            /\ mCapacityFrames' = cap
            /\ mMask' = IF cap = IntMin32 THEN IntMax32 ELSE cap - 1
            /\ IF cap < 0
                 THEN /\ initRet' = "throw"
                      /\ UNCHANGED <<mData, mRead, mWrite>>
                 ELSE /\ initRet' = "true"
                      /\ mData' = <<cap, ch>>
                      /\ mRead' = 0
                      /\ mWrite' = 0
    /\ UNCHANGED <<callVars, pullVars, lifeVars>>

NextInit == InitReject \/ InitAccept

SpecInit == InitInitSpec /\ [][NextInit]_vars

IsPow2(v) == \E k \in 0..30 : v = Pow2(k)

\* C5: after init(capacity_frames, channels) returned true for positive
\* 32-bit arguments, the capacity is the smallest power of two that is
\* >= max(2, capacity_frames), mask = capacity - 1, availableToRead() = 0
\* and availableToWrite() = capacity
C5_InitPow2 ==
    initRet = "true" =>
        /\ IsPow2(mCapacityFrames)
        /\ mCapacityFrames >= Max(2, initArgs[1])
        /\ mCapacityFrames \div 2 < Max(2, initArgs[1])
        /\ mMask = mCapacityFrames - 1
        /\ availableToRead(mRead, mWrite) = 0
        /\ availableToWrite(mRead, mWrite) = mCapacityFrames

\* ------------------------------------------------- FullDuplexEngine::pullTo
\* number of priming bursts start() writes into the output ring
kPrimeBursts == 20

Zeros(n) == [i \in 1..n |-> 0]

\* the callback's buffer as handed in: numFrames * channels samples of
\* unspecified content (-1 stands for whatever the device left there)
Garbage(n) == [i \in 1..n |-> -1]

\* the instants of steady_clock the model follows, around the end of the
\* warm-up window that starts at mStartTime
ClockInstants ==
    {mStartTime, mStartTime + kWarmupMs - 1, mStartTime + kWarmupMs}

\* steady_clock::now(): some instant not before the last one observed
ClockReads == {t \in ClockInstants : t >= now}

\* out + total * channels: index of the first sample readInterleaved fills
PullDstOffsetNoChannels(total) == total
PullDstOffset(total) == total * mChannels

\* bool warming = (now - mStartTime) < 300 ms
WarmingInclusive(t, start) == (t - start) <= kWarmupMs
Warming(t, start) == (t - start) < kWarmupMs

\* samples written at dst[off+1 ..] of the callback's buffer
Overlay(buf, off, s) ==
    [i \in DOMAIN buf |->
        IF i > off /\ i <= off + Len(s) THEN s[i - off] ELSE buf[i]]

\* The output ring right after a successful start() on a stream with fpb
\* frames per burst: initialised, then primed by kPrimeBursts writes of fpb
\* zero frames, each clamped to the free space; mStartTime = now, some
\* instant after the clock's epoch.
InitPullSpec ==
    /\ \E capReq \in 1..MaxPullCapReq, ch \in 1..MaxChannels,
          fpb \in 1..MaxPullWrite :
        \E cap \in nextPow2(capReq) :
          /\ cap > 0
          /\ initArgs = <<capReq, ch>>
          /\ mChannels = ch
          /\ mCapacityFrames = cap
          /\ mMask = cap - 1
          /\ mData = ZeroData(cap, ch)
          /\ mRead = 0
          /\ mWrite = Min(kPrimeBursts * fpb, cap)
          /\ accepted = Zeros(Min(kPrimeBursts * fpb, cap) * ch)
    /\ initRet = "true"
    /\ prod = IdleCall
    /\ cons = IdleCall
    /\ src = <<>>
    /\ offered = 0
    /\ returned = <<>>
    /\ pull = IdlePull
    /\ out = <<>>
    /\ mUnderflows = 0
    /\ now = kWarmupMs
    /\ mStartTime = kWarmupMs
    /\ EngineConstructed

\* the processing thread writes a burst of fresh frames to the output ring
WriteBurst ==
    /\ prod.pc = "idle"
    /\ \E n \in 1..MaxPullWrite :
        /\ offered + n <= MaxPullTotal
        /\ BeginWrite(n)
    /\ UNCHANGED <<ringVars, cons, accepted, returned,
                   outerVars>>

\* the playback callback calls pullTo(out, numFrames), at instant t0
PullCall ==
    /\ pull.pc = "idle"
    /\ \E n \in 0..MaxPull, t \in ClockReads :
        /\ mUnderflows + n <= MaxUnderflows
        /\ pull' = [IdlePull EXCEPT !.pc = "loop", !.numFrames = n,
                                    !.base = Len(returned),
                                    !.u0 = mUnderflows, !.t0 = t]
        /\ now' = t
        /\ out' = Garbage(n * mChannels)
    /\ UNCHANGED <<ringVars, callVars, initVars, lifeVars, mUnderflows, mStartTime>>

\* while (total < numFrames) got = mOutRing.readInterleaved(out + total * ch,
\*                                                          numFrames - total)
PullLoop ==
    /\ pull.pc = "loop"
    /\ IF pull.total < pull.numFrames
         THEN /\ BeginRead(pull.numFrames - pull.total)
              /\ pull' = [pull EXCEPT !.pc = "reading"]
         ELSE /\ pull' = [pull EXCEPT !.pc = "after"]
              /\ UNCHANGED cons
    /\ UNCHANGED <<ringVars, prod, src, offered, accepted, returned,
                   initVars, lifeVars, out, mUnderflows, now, mStartTime>>

\* readInterleaved has returned: if (got <= 0) break; total += got
PullGot ==
    /\ pull.pc = "reading"
    /\ cons.pc = "ret"
    /\ IF cons.ret <= 0
         THEN /\ pull' = [pull EXCEPT !.pc = "after"]
              /\ UNCHANGED out
         ELSE /\ pull' = [pull EXCEPT !.pc = "loop",
                                      !.total = pull.total + cons.ret,
                                      !.reads = pull.reads + 1]
              /\ out' = Overlay(out, PullDstOffset(pull.total), cons.buf)
    /\ cons' = IdleCall
    /\ UNCHANGED <<ringVars, prod, src, offered, accepted, returned,
                   initVars, lifeVars, mUnderflows, now, mStartTime>>

\* if (total < numFrames): zero-fill the rest, read the clock, count the
\* deficit unless warming
PullAfter ==
    /\ pull.pc = "after"
    /\ IF pull.total < pull.numFrames
         THEN /\ out' = Overlay(out, pull.total * mChannels,
                                Zeros((pull.numFrames - pull.total) * mChannels))
              /\ \E t \in ClockReads :
                   /\ now' = t
                   /\ mUnderflows' =
                        IF Warming(t, mStartTime) THEN mUnderflows
                        ELSE mUnderflows + (pull.numFrames - pull.total)
         ELSE UNCHANGED <<out, mUnderflows, now>>
    /\ pull' = [pull EXCEPT !.pc = "ret", !.ret = pull.numFrames]
    /\ UNCHANGED <<ringVars, callVars, initVars, lifeVars, mStartTime>>

\* pullTo has returned pull.ret, the callback hands out to the device
PullReturn ==
    /\ pull.pc = "ret"
    /\ pull' = IdlePull
    /\ out' = <<>>
    /\ UNCHANGED <<ringVars, callVars, initVars, lifeVars, mUnderflows, now, mStartTime>>

PullStep == PullCall \/ PullLoop \/ PullGot \/ PullAfter \/ PullReturn

NextPull == WriteBurst \/ WriteBody \/ ReadBody \/ PullStep

SpecPull == InitPullSpec /\ [][NextPull]_vars

\* the samples pullTo had to deliver: the frames that were next in the
\* output ring when it was called
NextInRing(cnt) == [i \in 1..cnt |-> accepted[pull.base + i]]

\* C6: pullTo(out, numFrames) returns numFrames; the first total frames of
\* out are the next total frames of the output ring in FIFO order (read in
\* one or several ring reads), the remaining numFrames - total frames are zero
C6_PullDelivers ==
    pull.pc = "ret" =>
        /\ pull.ret = pull.numFrames
        /\ pull.total >= 0 /\ pull.total <= pull.numFrames
        /\ Len(out) = pull.numFrames * mChannels
        /\ pull.base + pull.total * mChannels <= Len(accepted)
        /\ Part(out, 0, pull.total * mChannels)
             = NextInRing(pull.total * mChannels)
        /\ \A i \in (pull.total * mChannels + 1)..Len(out) : out[i] = 0

\* C6 witness: a pull that needed two ring reads of freshly produced frames
\* and still came up short
C6_Witness ==
    /\ pull.pc = "ret"
    /\ pull.reads >= 2
    /\ pull.total < pull.numFrames
    /\ mChannels > 1
    /\ out[1] > 0

\* C7: a pull that came up short adds exactly the deficit to underflows when
\* it is called 300 ms or more after start() and leaves underflows alone
\* when it completes within 300 ms of start(); a fully satisfied pull never
\* changes underflows
C7_WarmupSuppression ==
    pull.pc = "ret" =>
        LET deficit == pull.numFrames - pull.total
        IN  /\ deficit = 0 => mUnderflows = pull.u0
            /\ (deficit > 0 /\ pull.t0 - mStartTime >= kWarmupMs)
                  => mUnderflows = pull.u0 + deficit
            /\ (deficit > 0 /\ now - mStartTime < kWarmupMs)
                  => mUnderflows = pull.u0
            /\ mUnderflows \in {pull.u0, pull.u0 + deficit}

\* C7 witness: a pull called exactly 300 ms after start() got some frames,
\* came up short and was counted
C7_Witness ==
    /\ pull.pc = "ret"
    /\ pull.t0 - mStartTime = kWarmupMs
    /\ pull.total > 0
    /\ pull.numFrames - pull.total > 0
    /\ mUnderflows = pull.u0 + pull.numFrames - pull.total

\* ----------------------------------- FullDuplexEngine: start, stop, thread
\* SpecLife follows the rings by their frame counters: a ring call takes
\* effect at once, as the clamp of the request by the counters it loads.
\* The streams are collaborators: requestStart either starts the stream and
\* reports OK or leaves it and reports an error; requestStop leaves the
\* stream stopped whatever it reports (its result is only logged or dropped).

\* bound: start() calls followed over a run
MaxStarts == 2
\* bound: capture reads that deliver frames over a run
MaxReads == 1

\* one STFT hop at 16 kHz
kHOP == 96

\* int32_t division, truncating towards zero
CDiv(a, b) == IF a >= 0 THEN a \div b ELSE -((-a) \div b)

\* what the playback stream may report: channel count, frames per burst,
\* sample rate
StreamConfigs ==
    [ch : {-1, 0, 2}, fpb : {96, 288}, sr : {-48000, 0, 4, 10, 20, 48000}]

\* const int32_t capFrames = sr / 5
CapFrames(sr) == CDiv(sr, 5)
\* const int32_t cap16 = (sr / 5) / 3
Cap16(sr) == CDiv(CDiv(sr, 5), 3)

RbAvail(rb) == rb.wr - rb.rd
RbFree(rb) == rb.cap - RbAvail(rb)
\* frames a writeInterleaved(_, n) / readInterleaved(_, n) on rb transfers
RbWriteCnt(rb, n) == Max(0, Min(n, RbFree(rb)))
RbReadCnt(rb, n) == Max(0, Min(n, RbAvail(rb)))
RbWrite(rb, n) == [rb EXCEPT !.wr = rb.wr + RbWriteCnt(rb, n)]
RbPeek(rb, n) == rb
RbRead(rb, n) == [rb EXCEPT !.rd = rb.rd + RbReadCnt(rb, n)]
\* the ring after init(capReq, ch) returned true
RbInited(capReq, ch) ==
    {[cap |-> c, ch |-> ch, rd |-> 0, wr |-> 0] :
        c \in {x \in nextPow2(capReq) : x > 0}}

\* the capture stream after the rollback in start(): (void)mIn->requestStop()
NoRollback(started) == started
Rollback(started) == FALSE

\* mThread.join() returns once the thread function has returned
JoinWithoutWaiting(th) == TRUE
JoinReturns(th) == th = "finished"

LifeFrame == <<ringVars, callVars, initVars, pull, out, olaVars, histVars,
               resVars>>

\* the state after construction of the engine
StandaloneUnused ==
    /\ mCapacityFrames = 0
    /\ mChannels = 1
    /\ mMask = 0
    /\ mData = <<>>
    /\ mRead = 0
    /\ mWrite = 0
    /\ prod = IdleCall
    /\ cons = IdleCall
    /\ src = <<>>
    /\ offered = 0
    /\ accepted = <<>>
    /\ returned = <<>>
    /\ initArgs = <<0, 0>>
    /\ initRet = "none"
    /\ pull = IdlePull
    /\ out = <<>>
    /\ mUnderflows = 0
    /\ now = 0
    /\ mStartTime = 0

InitLifeSpec == StandaloneUnused /\ EngineConstructed

\* setSharedInputStream / setSharedOutputStream: the streams are set before the
\* first start()
SetStreams ==
    /\ ctl.pc = "idle" /\ ~terminated
    /\ ~mRunning /\ mThread = "none" /\ ~inStarted /\ ~outStarted
    /\ starts = 0
    /\ \E i \in BOOLEAN, o \in BOOLEAN, c \in StreamConfigs :
        /\ ~o => c = CHOOSE x \in StreamConfigs : TRUE
        /\ mIn' = i
        /\ mOut' = o
        /\ streamCfg' = c
        /\ <<i, o, c>> # <<mIn, mOut, streamCfg>>
    /\ UNCHANGED <<LifeFrame, mUnderflows, now, mStartTime, inStarted,
                   outStarted, threadVars, ctl, io, pipeVars, starts, reads,
                   pulls>>

\* start() is called
StartCall ==
    /\ ctl.pc = "idle" /\ ~terminated
    /\ starts < MaxStarts
    /\ starts' = starts + 1
    /\ ctl' = [IdleCtl EXCEPT !.pc = "s_check", !.op = "start",
                              !.entryRunning = mRunning]
    /\ UNCHANGED <<LifeFrame, mUnderflows, now, mStartTime, streamVars,
                   threadVars, io, pipeVars, reads, pulls>>

\* if (!mIn || !mOut) return false
StartCheck ==
    /\ ctl.pc = "s_check"
    /\ ctl' = IF mIn /\ mOut THEN [ctl EXCEPT !.pc = "s_initIn"]
              ELSE [ctl EXCEPT !.pc = "startRet", !.ret = FALSE]
    /\ UNCHANGED <<LifeFrame, mUnderflows, now, mStartTime, streamVars,
                   threadVars, io, pipeVars, starts, reads, pulls>>

\* if (!mInRing.init(capFrames, ch)) return false
StartInitIn ==
    /\ ctl.pc = "s_initIn"
    /\ IF RbInitOk(CapFrames(streamCfg.sr), streamCfg.ch)
         THEN /\ mInRing' \in RbInited(CapFrames(streamCfg.sr), streamCfg.ch)
              /\ ctl' = [ctl EXCEPT !.pc = "s_initOut"]
         ELSE /\ ctl' = [ctl EXCEPT !.pc = "startRet", !.ret = FALSE]
              /\ UNCHANGED mInRing
    /\ UNCHANGED <<LifeFrame, mUnderflows, now, mStartTime, streamVars,
                   threadVars, io, mOutRing, mMid16kMono, mOverflows, mStft,
                   tally, starts, reads, pulls>>

\* if (!mOutRing.init(capFrames, ch)) return false
StartInitOut ==
    /\ ctl.pc = "s_initOut"
    /\ IF RbInitOk(CapFrames(streamCfg.sr), streamCfg.ch)
         THEN /\ mOutRing' \in RbInited(CapFrames(streamCfg.sr), streamCfg.ch)
              /\ ctl' = [ctl EXCEPT !.pc = "s_prime"]
         ELSE /\ ctl' = [ctl EXCEPT !.pc = "startRet", !.ret = FALSE]
              /\ UNCHANGED mOutRing
    /\ UNCHANGED <<LifeFrame, mUnderflows, now, mStartTime, streamVars,
                   threadVars, io, mInRing, mMid16kMono, mOverflows, mStft,
                   tally, starts, reads, pulls>>

\* kPrimeBursts writes of fpb zero frames, each clamped to the free space
PrimedOneBurst(rb, fpb, k) == RbWrite(rb, fpb)
RECURSIVE Primed(_, _, _)
Primed(rb, fpb, k) ==
    IF k = 0 THEN rb ELSE Primed(RbWrite(rb, fpb), fpb, k - 1)

\* the scratch buffers are resized and the output ring is primed
StartPrime ==
    /\ ctl.pc = "s_prime"
    /\ mOutRing' = Primed(mOutRing, streamCfg.fpb, kPrimeBursts)
    /\ ctl' = [ctl EXCEPT !.pc = "s_stamp"]
    /\ UNCHANGED <<LifeFrame, mUnderflows, now, mStartTime, streamVars,
                   threadVars, io, mInRing, mMid16kMono, mOverflows, mStft,
                   tally, starts, reads, pulls>>

\* mStartTime = steady_clock::now()
StartStamp ==
    /\ ctl.pc = "s_stamp"
    /\ mStartTime' = now
    /\ UNCHANGED now
    /\ ctl' = [ctl EXCEPT !.pc = "s_initMid"]
    /\ UNCHANGED <<LifeFrame, mUnderflows, streamVars, threadVars, io,
                   pipeVars, starts, reads, pulls>>

\* the three 16 kHz rings are initialised with (cap16, 1); the resamplers
\* are reset
StartInitMid ==
    /\ ctl.pc = "s_initMid"
    /\ IF RbInitOk(Cap16(streamCfg.sr), 1)
         THEN /\ mMid16kMono' \in RbInited(Cap16(streamCfg.sr), 1)
              /\ ctl' = [ctl EXCEPT !.pc = "s_startIn"]
         ELSE /\ ctl' = [ctl EXCEPT !.pc = "startRet", !.ret = FALSE]
              /\ UNCHANGED mMid16kMono
    /\ UNCHANGED <<LifeFrame, mUnderflows, now, mStartTime, streamVars,
                   threadVars, io, mInRing, mOutRing, mOverflows, mStft,
                   tally, starts, reads, pulls>>

\* rIn = mIn->requestStart(); if (rIn != OK) return false
StartIn ==
    /\ ctl.pc = "s_startIn"
    /\ \E ok \in BOOLEAN :
        IF ok
          THEN /\ inStarted' = TRUE
               /\ ctl' = [ctl EXCEPT !.pc = "s_startOut",
                                     !.startsIssued = ctl.startsIssued + 1]
          ELSE /\ UNCHANGED inStarted
               /\ ctl' = [ctl EXCEPT !.pc = "startRet", !.ret = FALSE,
                                     !.startsIssued = ctl.startsIssued + 1]
    /\ UNCHANGED <<LifeFrame, mUnderflows, now, mStartTime, mIn, mOut,
                   streamCfg, outStarted, threadVars, io, pipeVars, starts,
                   reads, pulls>>

\* rOut = mOut->requestStart(); if (rOut != OK) { mIn->requestStop();
\* return false; }
StartOut ==
    /\ ctl.pc = "s_startOut"
    /\ \E ok \in BOOLEAN :
        IF ok
          THEN /\ outStarted' = TRUE
               /\ UNCHANGED inStarted
               /\ ctl' = [ctl EXCEPT !.pc = "s_spawn",
                                     !.startsIssued = ctl.startsIssued + 1]
          ELSE /\ UNCHANGED outStarted
               /\ inStarted' = Rollback(inStarted)
               /\ ctl' = [ctl EXCEPT !.pc = "startRet", !.ret = FALSE,
                                     !.rollback = TRUE,
                                     !.startsIssued = ctl.startsIssued + 1]
    /\ UNCHANGED <<LifeFrame, mUnderflows, now, mStartTime, mIn, mOut,
                   streamCfg, threadVars, io, pipeVars, starts, reads, pulls>>

\* mRunning.store(true); mThread = std::thread(ioThreadFunc): assigning to a
\* joinable std::thread calls std::terminate
StartSpawn ==
    /\ ctl.pc = "s_spawn"
    /\ mRunning' = TRUE
    /\ IF mThread = "none"
         THEN /\ mThread' = "running"
              /\ io' = [pc |-> "entry", fpb |-> 0, got |-> 0]
              /\ ctl' = [ctl EXCEPT !.pc = "startRet", !.ret = TRUE,
                                    !.spawned = TRUE]
              /\ UNCHANGED terminated
         ELSE /\ terminated' = TRUE
              /\ UNCHANGED <<mThread, io, ctl>>
    /\ UNCHANGED <<LifeFrame, mUnderflows, now, mStartTime, streamVars,
                   pipeVars, starts, reads, pulls>>

\* start() has returned ctl.ret
StartReturn ==
    /\ ctl.pc = "startRet" /\ ~terminated
    /\ ctl' = IdleCtl
    /\ UNCHANGED <<LifeFrame, mUnderflows, now, mStartTime, streamVars,
                   threadVars, io, pipeVars, starts, reads, pulls>>

StartStep ==
    \/ StartCall \/ StartCheck \/ StartInitIn \/ StartInitOut \/ StartPrime
    \/ StartStamp \/ StartInitMid \/ StartIn \/ StartOut \/ StartSpawn
    \/ StartReturn

\* stop() is called
StopCall ==
    /\ ctl.pc = "idle" /\ ~terminated
    /\ ctl' = [IdleCtl EXCEPT !.pc = "t_xchg", !.op = "stop",
                              !.entryRunning = mRunning]
    /\ UNCHANGED <<LifeFrame, mUnderflows, now, mStartTime, streamVars,
                   threadVars, io, pipeVars, starts, reads, pulls>>

\* if (mRunning.exchange(false)) { if (mThread.joinable()) ...
StopExchange ==
    /\ ctl.pc = "t_xchg" /\ ~terminated
    /\ mRunning' = FALSE
    /\ ctl' = [ctl EXCEPT !.was = mRunning,
                 !.midBurst = io.pc \in {"push", "gate", "xfer", "hop"},
                 !.pc = IF mRunning /\ mThread # "none" THEN "t_join"
                        ELSE "t_stopOut"]
    /\ UNCHANGED <<LifeFrame, mUnderflows, now, mStartTime, streamVars,
                   mThread, terminated, io, pipeVars, starts, reads, pulls>>

\* mThread.join()
StopJoin ==
    /\ ctl.pc = "t_join" /\ ~terminated
    /\ JoinReturns(mThread)
    /\ mThread' = IF mThread = "finished" THEN "none" ELSE mThread
    /\ ctl' = [ctl EXCEPT !.pc = "t_stopOut"]
    /\ UNCHANGED <<LifeFrame, mUnderflows, now, mStartTime, streamVars,
                   mRunning, terminated, io, pipeVars, starts, reads, pulls>>

\* if (mOut) mOut->requestStop()
StopOut ==
    /\ ctl.pc = "t_stopOut" /\ ~terminated
    /\ outStarted' = IF mOut THEN FALSE ELSE outStarted
    /\ ctl' = [ctl EXCEPT !.pc = "t_stopIn",
                 !.stopsIssued = IF mOut THEN ctl.stopsIssued \cup {"out"}
                                 ELSE ctl.stopsIssued]
    /\ UNCHANGED <<LifeFrame, mUnderflows, now, mStartTime, mIn, mOut,
                   streamCfg, inStarted, threadVars, io, pipeVars, starts,
                   reads, pulls>>

\* if (mIn) mIn->requestStop()
StopIn ==
    /\ ctl.pc = "t_stopIn" /\ ~terminated
    /\ inStarted' = IF mIn THEN FALSE ELSE inStarted
    /\ ctl' = [ctl EXCEPT !.pc = "stopRet",
                 !.stopsIssued = IF mIn THEN ctl.stopsIssued \cup {"in"}
                                 ELSE ctl.stopsIssued]
    /\ UNCHANGED <<LifeFrame, mUnderflows, now, mStartTime, mIn, mOut,
                   streamCfg, outStarted, threadVars, io, pipeVars, starts,
                   reads, pulls>>

\* stop() has returned
StopReturn ==
    /\ ctl.pc = "stopRet" /\ ~terminated
    /\ ctl' = IdleCtl
    /\ UNCHANGED <<LifeFrame, mUnderflows, now, mStartTime, streamVars,
                   threadVars, io, pipeVars, starts, reads, pulls>>

StopStep ==
    \/ StopCall \/ StopExchange \/ StopJoin \/ StopOut \/ StopIn
    \/ StopReturn

\* ------------------------------------------------------------ ioThreadFunc
\* bound: playback callbacks followed over a run
MaxPulls == 1

\* Resampler3x::processDown3 / processUp3: the number of samples produced
processDown3(inFrames, outMax) == Min(CDiv(inFrames, 3), outMax)
processUp3Partial(inFrames, outMax) ==
    IF inFrames <= 0 THEN 0 ELSE Max(0, Min(inFrames * 3, outMax))
processUp3(inFrames, outMax) ==
    IF inFrames <= 0 THEN 0
    ELSE 3 * CDiv(Max(0, Min(inFrames * 3, outMax)), 3)

\* if (wrote < got) mOverflows.fetch_add(got - wrote)
DeficitFlag(req, acc) == IF acc < req THEN 1 ELSE 0
DeficitRequested(req, acc) == IF acc < req THEN req ELSE 0
Deficit(req, acc) == IF acc < req THEN req - acc ELSE 0

\* StftProcessor::pushTimeDomain(_, n): every completed hop adds kHOP
\* samples to the output backlog
StftPushKeepFill(st, n) ==
    LET done == (st.hopFill + n) \div kHOP
    IN  [st EXCEPT !.pushed = st.pushed + n,
                   !.hops = st.hops + done,
                   !.avail = st.avail + kHOP * done,
                   !.hopFill = st.hopFill + n]
StftPush(st, n) ==
    LET done == (st.hopFill + n) \div kHOP
    IN  [st EXCEPT !.pushed = st.pushed + n,
                   !.hops = st.hops + done,
                   !.avail = st.avail + kHOP * done,
                   !.hopFill = (st.hopFill + n) % kHOP]
\* StftProcessor::popTimeDomain(_, max): the number of samples returned
StftPopCnt(st, max) == Min(max, st.avail)
StftPop(st, max) ==
    [st EXCEPT !.popped = st.popped + StftPopCnt(st, max),
               !.avail = st.avail - StftPopCnt(st, max)]

IoFrame == <<LifeFrame, mUnderflows, now, mStartTime, streamVars, mRunning,
             terminated, ctl, starts, pulls>>

\* const int32_t fpb = mOut->getFramesPerBurst()
IoEntry ==
    /\ io.pc = "entry"
    /\ io' = [io EXCEPT !.pc = "top", !.fpb = streamCfg.fpb]
    /\ UNCHANGED <<IoFrame, mThread, pipeVars, reads>>

\* while (mRunning.load(acquire)): the thread function returns when the
\* flag is false
IoTop ==
    /\ io.pc = "top"
    /\ IF mRunning
         THEN /\ io' = [io EXCEPT !.pc = "read"]
              /\ UNCHANGED mThread
         ELSE /\ io' = [io EXCEPT !.pc = "done"]
              /\ mThread' = "finished"
    /\ UNCHANGED <<IoFrame, pipeVars, reads>>

\* mIn->read(mTmpIn, fpb, 10 ms): an error or no frames (continue), or a
\* burst
IoRead ==
    /\ io.pc = "read"
    /\ \/ /\ io' = [io EXCEPT !.pc = "top", !.got = 0]
          /\ UNCHANGED reads
       \/ /\ reads < MaxReads
          /\ reads' = reads + 1
          /\ io' = [io EXCEPT !.pc = "push", !.got = io.fpb]
    /\ UNCHANGED <<IoFrame, mThread, pipeVars>>

\* wrote = mInRing.writeInterleaved(mTmpIn, got); a short write is counted
IoPush ==
    /\ io.pc = "push"
    /\ mInRing' = RbWrite(mInRing, io.got)
    /\ mOverflows' = mOverflows + Deficit(io.got, RbWriteCnt(mInRing, io.got))
    /\ tally' = [tally EXCEPT
                   !.inReq = tally.inReq + io.got,
                   !.inAcc = tally.inAcc + RbWriteCnt(mInRing, io.got)]
    /\ io' = [io EXCEPT !.pc = "gate"]
    /\ UNCHANGED <<IoFrame, mThread, mOutRing, mMid16kMono, mStft, reads>>

\* canXfer = min(mInRing.availableToRead(), mOutRing.availableToWrite());
\* while (canXfer >= fpb); the statistics are logged after the loop
IoGate ==
    /\ io.pc = "gate"
    /\ io' = [io EXCEPT !.pc =
                IF Min(RbAvail(mInRing), RbFree(mOutRing)) >= io.fpb
                  THEN "xfer" ELSE "top"]
    /\ UNCHANGED <<IoFrame, mThread, pipeVars, reads>>

\* one burst is read from the input ring, downsampled, mixed to mono and
\* written to the mono ring
IoXfer ==
    /\ io.pc = "xfer"
    /\ mInRing' = RbRead(mInRing, io.fpb)
    /\ IF RbReadCnt(mInRing, io.fpb) = io.fpb
         THEN LET out16 == processDown3(io.fpb, CDiv(streamCfg.fpb, 3))
                  wM == RbWriteCnt(mMid16kMono, out16)
              IN  /\ mMid16kMono' = RbWrite(mMid16kMono, out16)
                  /\ mOverflows' = mOverflows + Deficit(out16, wM)
                  /\ tally' = [tally EXCEPT
                                 !.inRead = tally.inRead + io.fpb,
                                 !.monoReq = tally.monoReq + out16,
                                 !.monoAcc = tally.monoAcc + wM]
                  /\ io' = [io EXCEPT !.pc = "hop"]
         ELSE /\ io' = [io EXCEPT !.pc = "gate"]
              /\ UNCHANGED <<mMid16kMono, mOverflows, tally>>
    /\ UNCHANGED <<IoFrame, mThread, mOutRing, mStft, reads>>

\* while (mMid16kMono.availableToRead() >= 96): one hop goes through the
\* STFT, is upsampled and written to the output ring
IoHop ==
    /\ io.pc = "hop"
    /\ IF RbAvail(mMid16kMono) >= kHOP
         THEN LET st1 == StftPush(mStft, kHOP)
                  got16 == StftPopCnt(st1, kHOP)
                  up == processUp3(kHOP, streamCfg.fpb * 3)
                  wr == RbWriteCnt(mOutRing, up)
              IN  /\ mMid16kMono' = RbRead(mMid16kMono, kHOP)
                  /\ mStft' = StftPop(st1, kHOP)
                  /\ IF got16 = kHOP
                       THEN /\ mOutRing' = RbWrite(mOutRing, up)
                            /\ mOverflows' = mOverflows + Deficit(up, wr)
                            /\ tally' = [tally EXCEPT
                                           !.outReq = tally.outReq + up,
                                           !.outAcc = tally.outAcc + wr]
                       ELSE UNCHANGED <<mOutRing, mOverflows, tally>>
                  /\ UNCHANGED io
         ELSE /\ io' = [io EXCEPT !.pc = "gate"]
              /\ UNCHANGED <<mMid16kMono, mStft, mOutRing, mOverflows,
                             tally>>
    /\ UNCHANGED <<IoFrame, mThread, mInRing, reads>>

IoStep ==
    /\ ~terminated
    /\ mThread = "running"
    /\ (IoEntry \/ IoTop \/ IoRead \/ IoPush \/ IoGate \/ IoXfer \/ IoHop)

\* the playback callback on the started playback stream: pullTo(out, n)
\* reads what the output ring holds, zero-fills the rest and counts it as
\* underflow once the warm-up is over
PullFrames(n) ==
    /\ pulls' = pulls + 1
    /\ LET total == RbReadCnt(mOutRing, n)
       IN  /\ mOutRing' = RbRead(mOutRing, n)
           /\ IF total < n
                THEN \E t \in ClockReads :
                       /\ now' = t
                       /\ mUnderflows' =
                            IF Warming(t, mStartTime) THEN mUnderflows
                            ELSE mUnderflows + (n - total)
                ELSE UNCHANGED <<now, mUnderflows>>
    /\ UNCHANGED <<LifeFrame, mStartTime, streamVars, threadVars, ctl, io,
                   mInRing, mMid16kMono, mOverflows, mStft, tally, starts,
                   reads>>

PullCb ==
    /\ ~terminated
    /\ outStarted
    /\ pulls < MaxPulls
    /\ PullFrames(streamCfg.fpb)

ControlStep == ~terminated /\ (SetStreams \/ StartStep \/ StopStep)

NextLife == ControlStep \/ IoStep \/ PullCb

SpecLife == InitLifeSpec /\ [][NextLife]_vars

\* the scheduler runs the processing thread and the control thread
SpecLifeFair ==
    /\ SpecLife
    /\ WF_vars(IoStep)
    /\ WF_vars(StopStep)

\* ------------------------------------------------------- lifecycle claims
InStop(pcs) == ctl.op = "stop" /\ ctl.pc \in pcs
RingWrites == <<mInRing.wr, mOutRing.wr, mMid16kMono.wr>>

\* stop() on a running engine: once the flag is exchanged it is false; past
\* the join the thread function has returned and the thread is joined; at
\* return requestStop has been issued on both streams
C8_AtStop ==
    /\ InStop({"t_join", "t_stopOut", "t_stopIn", "stopRet"}) => ~mRunning
    /\ InStop({"t_stopOut", "t_stopIn", "stopRet"}) /\ ctl.was
         => mThread = "none" /\ io.pc \in {"none", "done"}
    /\ InStop({"stopRet"}) /\ ctl.was
         => /\ ctl.stopsIssued = {"in", "out"}
            /\ ~inStarted /\ ~outStarted

\* the thread that finds the flag false at the top of its loop returns
C8_ExitAtTop ==
    io.pc = "top" /\ ~mRunning /\ io'.pc # io.pc
        => io'.pc = "done" /\ mThread' = "finished"

\* frames are written to a ring only by the running processing thread or
\* inside start()
C8_WritersOnly ==
    RingWrites' # RingWrites
        => (mThread = "running" /\ io.pc # "done") \/ ctl.op = "start"

\* C8: stop() on a running engine, also called in the middle of a burst,
\* makes running false; the processing thread leaves at the top of its next
\* outer iteration (the capture read returns); stop() gets past the join
\* only once that thread has terminated, and so returns, with requestStop
\* issued on both streams; from then on no frame is written to a ring until
\* start() is called again.
C8_CleanShutdown ==
    /\ [](C8_AtStop)
    /\ [][C8_ExitAtTop]_vars
    /\ [][C8_WritersOnly]_vars
    /\ (InStop({"t_join"}) ~> InStop({"stopRet"}))

\* stop() has returned on an engine that was running, and it was called
\* while the thread was inside a burst
C8_Witness ==
    /\ InStop({"stopRet"})
    /\ ctl.was /\ ctl.midBurst
    /\ mThread = "none"
    /\ mInRing.wr > 0

\* start() sees a configuration error
ConfigError ==
    \/ ~mIn
    \/ ~mOut
    \/ streamCfg.ch <= 0
    \/ streamCfg.sr <= 0

AtStartReturn == ctl.op = "start" /\ ctl.pc = "startRet"

\* C9: start() on a stopped engine with the capture or the playback stream
\* unset, or with a playback stream that reports a channel count or a
\* sample rate <= 0, returns false; it issues no requestStart, starts no
\* stream, spawns no thread and leaves running false.
C9_ConfigErrors ==
    ctl.op = "start" /\ ~ctl.entryRunning /\ ConfigError
        => /\ ctl.startsIssued = 0
           /\ ~ctl.spawned
           /\ ~mRunning
           /\ mThread = "none"
           /\ ~inStarted /\ ~outStarted
           /\ ctl.pc = "startRet" => ctl.ret = FALSE
           /\ ctl.pc \notin {"s_startIn", "s_startOut", "s_spawn"}

\* start() has returned false for both streams set and a channel count of 0
C9_Witness ==
    /\ AtStartReturn
    /\ ~ctl.entryRunning
    /\ mIn /\ mOut
    /\ streamCfg.ch <= 0
    /\ ctl.ret = FALSE

\* C10: start() on a stopped engine. If requestStart on the capture stream
\* fails, start() returns false and has not called requestStart on the
\* playback stream; if requestStart on the playback stream fails, start()
\* has called requestStop on the capture stream and returns false. In both
\* cases no stream is left started, no thread is spawned and running is
\* false.
C10_StartFailure ==
    AtStartReturn /\ ~ctl.entryRunning /\ ctl.startsIssued > 0 /\ ~ctl.spawned
        => /\ ctl.ret = FALSE
           /\ ctl.startsIssued = 1 => ~ctl.rollback
           /\ ctl.startsIssued = 2 => ctl.rollback
           /\ ~inStarted /\ ~outStarted
           /\ ~mRunning
           /\ mThread = "none"

\* start() has returned false after the playback stream failed to start and
\* the capture stream was rolled back
C10_Witness ==
    /\ AtStartReturn
    /\ ~ctl.entryRunning
    /\ ctl.startsIssued = 2
    /\ ctl.rollback
    /\ ~ctl.ret
    /\ ~inStarted

\* --------------------------------------------- the pipeline of a started engine
\* SpecPipe follows the processing thread and the playback callback of an
\* engine that start() has just started

\* bound: capture reads that deliver frames
MaxPipeReads == 6
\* bound: playback callbacks
MaxPipePulls == 2

\* sample rate and burst size of the playback stream
PipeRates == {2400, 9600, 48000}
PipeBursts == {48, 96, 288}

\* the engine when start() returns true
InitPipeSpec ==
    /\ StandaloneUnused
    /\ mIn = TRUE /\ mOut = TRUE
    /\ \E sr \in PipeRates, fpb \in PipeBursts :
         streamCfg = [ch |-> 2, fpb |-> fpb, sr |-> sr]
    /\ inStarted = TRUE /\ outStarted = TRUE
    /\ mRunning = TRUE
    /\ mThread = "running"
    /\ terminated = FALSE
    /\ ctl = IdleCtl
    /\ io = [pc |-> "entry", fpb |-> 0, got |-> 0]
    /\ mInRing \in RbInited(CapFrames(streamCfg.sr), streamCfg.ch)
    /\ \E rb \in RbInited(CapFrames(streamCfg.sr), streamCfg.ch) :
         mOutRing = Primed(rb, streamCfg.fpb, kPrimeBursts)
    /\ mMid16kMono \in RbInited(Cap16(streamCfg.sr), 1)
    /\ mOverflows = 0
    /\ StftConstructed
    /\ ResamplerConstructed
    /\ tally = ZeroTally
    /\ starts = 1
    /\ reads = 0
    /\ pulls = 0

\* mIn->read(mTmpIn, fpb, 10 ms): an error or no frames, a part of a burst,
\* or a burst
PipeRead ==
    /\ io.pc = "read"
    /\ \/ /\ io' = [io EXCEPT !.pc = "top", !.got = 0]
          /\ UNCHANGED reads
       \/ /\ reads < MaxPipeReads
          /\ reads' = reads + 1
          /\ \E got \in {io.fpb \div 2, io.fpb} :
               io' = [io EXCEPT !.pc = "push", !.got = got]
    /\ UNCHANGED <<IoFrame, mThread, pipeVars>>

PipeStep ==
    /\ mThread = "running"
    /\ (IoEntry \/ IoTop \/ PipeRead \/ IoPush \/ IoGate \/ IoXfer \/ IoHop)

\* the playback callback asks for one burst or two
PipePull ==
    /\ outStarted
    /\ pulls < MaxPipePulls
    /\ \E n \in {streamCfg.fpb, 2 * streamCfg.fpb} : PullFrames(n)

NextPipe == PipeStep \/ PipePull

SpecPipe == InitPipeSpec /\ [][NextPipe]_vars

\* the scheduler runs the processing thread
SpecPipeFair == SpecPipe /\ WF_vars(PipeStep)

\* -------------------------------------------------------- pipeline claims
\* the processing thread is outside the transfer of a burst
BetweenBursts == io.pc \in {"entry", "top", "read", "push", "gate"}

\* C11: with fpb divisible by 3, whenever the processing thread is between
\* bursts, the STFT has pushed and popped 96 samples per hop, the mono ring
\* was offered a third of the frames read from the input ring, the output
\* ring was offered 3 * 96 frames per hop, and the frames read from the
\* input ring and those offered to the output ring differ by less than
\* 3 * 96.
C11_RateConservation ==
    streamCfg.fpb % 3 = 0 /\ BetweenBursts
        => /\ mStft.pushed = kHOP * mStft.hops
           /\ mStft.popped = kHOP * mStft.hops
           /\ 3 * tally.monoReq = tally.inRead
           /\ tally.outReq = 3 * kHOP * mStft.hops
           /\ tally.inRead - tally.outReq < 3 * kHOP
           /\ tally.outReq - tally.inRead < 3 * kHOP

\* frames the rings did not accept from the processing thread
InDropped == tally.inReq - tally.inAcc
MonoDropped == tally.monoReq - tally.monoAcc
OutDropped == tally.outReq - tally.outAcc

\* pullTo was never called; no burst fits into the output ring
Starved == pulls = 0
OutFilled == RbFree(mOutRing) < streamCfg.fpb

\* C12 as stated: with pullTo never called and the output ring filled,
\* mOverflows grows by exactly the output frames the output ring did not
\* accept.
C12_OutputDropsOnly ==
    [][Starved /\ OutFilled
         => mOverflows' - mOverflows = OutDropped' - OutDropped]_vars

\* C12 amended: with pullTo never called and the output ring filled,
\* mOverflows grows by exactly the frames the rings did not accept from the
\* processing thread: the output frames not accepted by the output ring and
\* the captured frames not accepted by the input ring (and mono samples not
\* accepted by the mono ring).
C12_StarvedOverflow ==
    [][Starved /\ OutFilled
         => mOverflows' - mOverflows =
              (InDropped' - InDropped) + (MonoDropped' - MonoDropped)
                + (OutDropped' - OutDropped)]_vars

\* a starved engine whose output ring is full has dropped captured frames at
\* the input ring and counted them
C12_Witness ==
    /\ Starved
    /\ OutFilled
    /\ InDropped > 0
    /\ mOverflows >= InDropped
    /\ io.pc = "gate"

\* C13: mOverflows is the sum, over the writes the processing thread issued
\* to the input, the mono and the output ring, of frames requested minus
\* frames accepted; it never decreases; a short write leaves the thread
\* running inside its loop, and the loop comes back to its capture read.
C13_Sum == mOverflows = InDropped + MonoDropped + OutDropped

C13_NoDecrease == mOverflows' >= mOverflows

C13_ShortWriteGoesOn ==
    mOverflows' > mOverflows
        => mThread' = "running" /\ mRunning' /\ io'.pc \in {"gate", "hop"}

C13_OverflowAccounting ==
    /\ [](C13_Sum)
    /\ [][C13_NoDecrease]_vars
    /\ [][C13_ShortWriteGoesOn]_vars
    /\ ((mOverflows > 0 /\ io.pc # "read") ~> (io.pc = "read"))

\* short writes to the input ring and to the output ring were counted and
\* the thread is back at the top of its loop
C13_Witness ==
    /\ InDropped > 0
    /\ OutDropped > 0
    /\ mOverflows = InDropped + OutDropped
    /\ io.pc = "top"

\* the processing thread is inside the body of its outer loop, past the
\* capture read
InBurst == io.pc \in {"push", "gate", "xfer", "hop"}

\* a pass of the transfer loop takes one burst out of the input ring
C14_TransferPass ==
    io.pc = "xfer" /\ io'.pc # "xfer"
        => /\ io.fpb > 0
           /\ RbAvail(mInRing') = RbAvail(mInRing) - io.fpb

\* a pass of the hop loop takes one hop out of the mono ring
C14_HopPass ==
    io.pc = "hop" /\ io'.pc = "hop" /\ pulls' = pulls /\ tally' # tally
        => RbAvail(mMid16kMono') = RbAvail(mMid16kMono) - kHOP

\* the loops are entered only with the fill level they take away
C14_Guarded ==
    /\ io.pc = "xfer" => RbAvail(mInRing) >= io.fpb
    /\ mThread = "running" => ENABLED PipeStep

\* C14: the processing thread always has a step to take, whatever the rings
\* hold and whenever the playback callback runs; every pass of the transfer
\* loop lowers the fill of the input ring by fpb > 0 and every pass of the
\* hop loop lowers the fill of the mono ring by 96; once the capture read
\* has returned, the outer iteration gets back to the top of the loop.
C14_NoRingWait ==
    /\ [](C14_Guarded)
    /\ [][C14_TransferPass]_vars
    /\ [][C14_HopPass]_vars
    /\ (InBurst ~> io.pc = "top")

\* the transfer loop runs a further pass with two bursts or more in the
\* input ring, after the playback callback has run
C14_Witness ==
    /\ io.pc = "xfer"
    /\ pulls > 0
    /\ tally.inRead > 0
    /\ RbAvail(mInRing) >= 2 * io.fpb

\* ---------------------------------------------------------- StftProcessor
\* SpecStft follows one StftProcessor through pushTimeDomain and
\* popTimeDomain calls. A cell of the overlap-add ring holds the set of
\* block samples <<hop, i>> added into it (block i of that hop), a cell of
\* the normalisation ring the set of window squares <<hop, i>> (mWin[i]^2)
\* added into it; a cell that is 0.0f is absent. The 64-bit counters are
\* followed by a representative modulo 2^64: a negative one stands for the
\* wrapped value 2^64 + v.

kNFFT == 512
kOlaCap == 32768

\* bound: pushTimeDomain / popTimeDomain calls followed
MaxStftCalls == 4

\* the frame counts the calls are tried with
PushSizes == {-1, 0, 1, 95, 96, 97, 200}
PopSizes == {-1, 0, 1, 96, 200}

\* (x) & mOlaMask, for size_t x (2^15 divides 2^64)
OlaIndex(x) == x % kOlaCap

\* buf[idx], the empty sum standing for 0.0f
Cell(buf, idx) == IF idx \in DOMAIN buf THEN buf[idx] ELSE {}

\* hann512(i, 512)^2 = sin^4(pi i / 511) exceeds kEps = 1e-8 exactly for
\* 2 <= i <= 509; no two of the others ever meet in one cell
WinSqAboveEps(i) == i >= 2 /\ i <= kNFFT - 3

\* n > kEps for the sum n held by a cell of the normalisation ring
NormPositive(cell) == \E c \in cell : c[2] >= 1 /\ c[2] <= kNFFT - 2
NormAboveEps(cell) == \E c \in cell : WinSqAboveEps(c[2])

\* out16[i] = (n > kEps) ? (mOlaBuf[idx] / n) : 0.0f
Emit(olaCell, normCell) ==
    IF NormAboveEps(normCell)
      THEN [div |-> TRUE, ola |-> olaCell, norm |-> normCell]
      ELSE [div |-> FALSE, ola |-> {}, norm |-> {}]

\* olaAdd: buf[(mOlaWrite + i) & mOlaMask] += ... for i in [0, 512)
OlaAdded(buf, w, hop) ==
    LET dom == DOMAIN buf \cup {OlaIndex(w + i) : i \in 0..(kNFFT - 1)}
    IN  [idx \in dom |->
           LET i == OlaIndex(idx - w)
           IN  IF i < kNFFT THEN Cell(buf, idx) \cup {<<hop, i>>}
               ELSE Cell(buf, idx)]

\* mTime512: 32 zeros, mHist384 at [32, 416), mHopBuf at [416, 512)
AnalysisFramePadLast(hist, hop) ==
    [p \in 1..kNFFT |->
        IF p <= kHist THEN At(hist, p)
        ELSE IF p <= kHist + kHOP THEN At(hop, p - kHist)
        ELSE 0]
AnalysisFrame(hist, hop) ==
    [p \in 1..kNFFT |->
        IF p <= kPad THEN 0
        ELSE IF p <= kPad + kHist THEN At(hist, p - kPad)
        ELSE At(hop, p - kPad - kHist)]

\* olaAdd on mOlaBuf: block512[i] is the frame's sample i through the
\* analysis window, the identity spectrum and the synthesis window
OlaAddedBlockOverwrite(buf, w, hop, frame) ==
    LET dom == DOMAIN buf \cup {OlaIndex(w + i) : i \in 0..(kNFFT - 1)}
    IN  [idx \in dom |->
           LET i == OlaIndex(idx - w)
           IN  IF i < kNFFT THEN {<<hop, i, frame[i + 1]>>}
               ELSE Cell(buf, idx)]
OlaAddedBlock(buf, w, hop, frame) ==
    LET dom == DOMAIN buf \cup {OlaIndex(w + i) : i \in 0..(kNFFT - 1)}
    IN  [idx \in dom |->
           LET i == OlaIndex(idx - w)
           IN  IF i < kNFFT THEN Cell(buf, idx) \cup {<<hop, i, frame[i + 1]>>}
               ELSE Cell(buf, idx)]

\* mHist384 after the roll: drop 96, append mHopBuf
HistStale(hist, hop) == hist
HistRolled(hist, hop) ==
    LET rolled(i) == IF i <= kHist - kHOP THEN At(hist, i + kHOP)
                     ELSE At(hop, i - (kHist - kHOP))
    IN  [i \in {x \in 1..kHist : rolled(x) # 0} |-> rolled(i)]

\* processOneHop: mAvail += kHOP
AvailAfterHopFrame(a) == a + (kNFFT - 32)
AvailAfterHop(a) == a + kHOP

\* the cells popTimeDomain reads and clears
PopCells(r, want) == {OlaIndex(r + i) : i \in 0..(want - 1)}
NotCleared(buf, cells) == buf
Cleared(buf, cells) == [idx \in DOMAIN buf \ cells |-> buf[idx]]

StftFrame == <<ringVars, callVars, initVars, pullVars, streamVars, threadVars,
               ctl, io, mInRing, mOutRing, mMid16kMono, mOverflows, tally,
               resVars, starts, reads, pulls>>

\* a stand-alone StftProcessor after construction
InitStftSpec ==
    /\ StandaloneUnused
    /\ EngineConstructed

\* pushTimeDomain(mono16, frames): mPushed += frames
PushCall ==
    /\ stc.pc = "idle"
    /\ stc.calls < MaxStftCalls
    /\ \E n \in PushSizes :
        /\ mStft' = [mStft EXCEPT !.pushed = mStft.pushed + n]
        /\ stc' = [IdleStc EXCEPT !.pc = "p_loop", !.op = "push", !.n = n,
                                  !.calls = stc.calls + 1,
                                  !.h0 = mStft.hops]
    /\ UNCHANGED <<StftFrame, mOlaBuf, mNormBuf, mOlaWrite, mOlaRead,
                   histVars>>

\* while (idx < frames): take = min(kHOP - mHopFill, frames - idx) samples
\* go to mHopBuf
PushTake ==
    /\ stc.pc = "p_loop"
    /\ IF stc.idx < stc.n
         THEN LET take == Min(kHOP - mStft.hopFill, stc.n - stc.idx)
                  first == kHOP * mStft.hops + mStft.hopFill
              IN  /\ mStft' = [mStft EXCEPT !.hopFill = mStft.hopFill + take]
                  /\ mHopBuf' =
                       [i \in DOMAIN mHopBuf \cup
                               (mStft.hopFill + 1)..(mStft.hopFill + take) |->
                          IF i > mStft.hopFill /\ i <= mStft.hopFill + take
                            THEN InputAt(first + i - mStft.hopFill - 1)
                            ELSE mHopBuf[i]]
                  /\ stc' = [stc EXCEPT
                               !.idx = stc.idx + take,
                               !.pc = IF mStft.hopFill + take = kHOP
                                        THEN "p_hop" ELSE "p_loop"]
         ELSE /\ stc' = [stc EXCEPT !.pc = "p_ret"]
              /\ UNCHANGED <<mStft, mHopBuf>>
    /\ UNCHANGED <<StftFrame, mOlaBuf, mNormBuf, mOlaWrite, mOlaRead,
                   mHist384>>

\* if (mHopFill == kHOP): processOneHop() adds the block into both rings,
\* mOlaWrite += kHOP, mAvail += kHOP, mHops += 1; then mHopFill = 0
PushHop ==
    /\ stc.pc = "p_hop"
    /\ mOlaBuf' = OlaAddedBlock(mOlaBuf, mOlaWrite, mStft.hops,
                                AnalysisFrame(mHist384, mHopBuf))
    /\ mNormBuf' = OlaAdded(mNormBuf, mOlaWrite, mStft.hops)
    /\ mOlaWrite' = OlaIndex(mOlaWrite + kHOP)
    /\ mStft' = [mStft EXCEPT !.avail = AvailAfterHop(mStft.avail),
                              !.hops = mStft.hops + 1,
                              !.hopFill = 0]
    /\ mHist384' = HistRolled(mHist384, mHopBuf)
    /\ stc' = [stc EXCEPT !.pc = "p_loop"]
    /\ UNCHANGED <<StftFrame, mOlaRead, mHopBuf>>

\* pushTimeDomain returns
PushReturn ==
    /\ stc.pc = "p_ret"
    /\ stc' = [stc EXCEPT !.pc = "idle"]
    /\ UNCHANGED <<StftFrame, mStft, mOlaBuf, mNormBuf, mOlaWrite, mOlaRead,
                   histVars>>

\* popTimeDomain(out16, maxFrames)
PopCall ==
    /\ stc.pc = "idle"
    /\ stc.calls < MaxStftCalls
    /\ \E max \in PopSizes :
        LET want == Min(max, mStft.avail)
            cells == PopCells(mOlaRead, want)
        IN  /\ stc' = [IdleStc EXCEPT
                         !.pc = "o_ret", !.op = "pop", !.n = max,
                         !.ret = want,
                         !.out = [i \in 1..want |->
                                    Emit(Cell(mOlaBuf, OlaIndex(mOlaRead + i - 1)),
                                         Cell(mNormBuf, OlaIndex(mOlaRead + i - 1)))],
                         !.calls = stc.calls + 1]
            /\ mOlaBuf' = Cleared(mOlaBuf, cells)
            /\ mNormBuf' = Cleared(mNormBuf, cells)
            /\ mOlaRead' = OlaIndex(mOlaRead + want)
            /\ mStft' = [mStft EXCEPT !.avail = mStft.avail - want,
                                      !.popped = mStft.popped + want]
    /\ UNCHANGED <<StftFrame, mOlaWrite, histVars>>

\* popTimeDomain returns want
PopReturn ==
    /\ stc.pc = "o_ret"
    /\ stc' = [stc EXCEPT !.pc = "idle"]
    /\ UNCHANGED <<StftFrame, mStft, mOlaBuf, mNormBuf, mOlaWrite, mOlaRead,
                   histVars>>

NextStft ==
    \/ PushCall \/ PushTake \/ PushHop \/ PushReturn
    \/ PopCall \/ PopReturn

SpecStft == InitStftSpec /\ [][NextStft]_vars

\* ----------------------------------------------------- StftProcessor claims
\* mHopFill stays within the staging buffer and is full exactly when the
\* hop is about to be processed
C15_Staging ==
    /\ mStft.hopFill \in 0..kHOP
    /\ mStft.hopFill = kHOP <=> stc.pc = "p_hop"

\* a full staging buffer is followed by one processed hop, mHopFill = 0 and
\* kHOP more samples to pop; nothing else processes a hop
C15_OneHop ==
    /\ mStft.hopFill = kHOP /\ stc'.pc # stc.pc
         => /\ mStft'.hops = mStft.hops + 1
            /\ mStft'.hopFill = 0
            /\ mStft'.avail = mStft.avail + kHOP
    /\ mStft'.hops # mStft.hops => mStft.hopFill = kHOP

\* the last call was a push that completed a hop
PushedAHop == stc.pc = "idle" /\ stc.op = "push" /\ mStft.hops > stc.h0

C15_PopAfterHop ==
    PushedAHop /\ stc'.op = "pop" /\ stc'.n = kHOP => stc'.ret = kHOP

\* C15: whenever mHopFill reaches 96 inside pushTimeDomain exactly one hop
\* is processed, mHopFill returns to 0 and mAvail grows by exactly 96; a
\* popTimeDomain(out, 96) that follows a push which completed a hop returns
\* 96.
C15_HopQuantum ==
    /\ [](C15_Staging)
    /\ [][C15_OneHop]_vars
    /\ [][C15_PopAfterHop]_vars

\* popTimeDomain(out, 96) has returned 96 right after a push of 97 samples
\* that completed a hop and left one sample staged
C15_Witness ==
    /\ stc.pc = "o_ret"
    /\ stc.n = kHOP
    /\ stc.ret = kHOP
    /\ mStft.hops = 1
    /\ mStft.hopFill = 1
    /\ mStft.avail = 0

\* a 64-bit counter read as unsigned: a negative representative is the
\* wrapped value 2^64 + v
U64Leq(a, b) ==
    IF (a < 0) = (b < 0) THEN a <= b ELSE b < 0

C16_NoDecrease ==
    /\ U64Leq(mStft.pushed, mStft'.pushed)
    /\ U64Leq(mStft.popped, mStft'.popped)
    /\ U64Leq(mStft.hops, mStft'.hops)

C16_HopsOfPushed ==
    stc.pc = "idle" => mStft.pushed >= 0 /\ mStft.hops = mStft.pushed \div kHOP

\* C16: over any sequence of pushTimeDomain(samples, n) and
\* popTimeDomain(out, max) calls, mPushed, mPopped and mHops never decrease
\* and, between calls, mHops = floor(mPushed / 96).
C16_Counters ==
    /\ [](C16_HopsOfPushed)
    /\ [][C16_NoDecrease]_vars

\* the step is a popTimeDomain(out, max) call
IsPop == stc.pc = "idle" /\ stc'.pc = "o_ret"

\* C17: popTimeDomain(out, max) writes and returns min(max, mAvail) samples,
\* never a negative count; mOlaRead advances by that count modulo the ring
\* size, mAvail decreases by it and mPopped increases by it; with max <= 0
\* or mAvail = 0 it returns 0 and changes nothing in the processor.
C17_PopCount ==
    [][IsPop =>
        LET max == stc'.n
            cnt == Max(0, Min(max, mStft.avail))
        IN  /\ stc'.ret = cnt
            /\ stc'.ret >= 0
            /\ DOMAIN stc'.out = 1..cnt
            /\ mOlaRead' = (mOlaRead + cnt) % kOlaCap
            /\ mStft'.avail = mStft.avail - cnt
            /\ mStft'.popped = mStft.popped + cnt
            /\ max <= 0 \/ mStft.avail = 0
                 => /\ stc'.ret = 0
                    /\ UNCHANGED <<mStft, mOlaBuf, mNormBuf, mOlaWrite,
                                   mOlaRead>>]_vars

\* C18: in every reachable state of the processor, mPopped <= 96 * mHops <=
\* mPushed (so mPopped <= mPushed) and mAvail = 96 * mHops - mPopped.
C18_CounterOrder ==
    /\ U64Leq(mStft.popped, mStft.pushed)
    /\ U64Leq(mStft.popped, kHOP * mStft.hops)
    /\ U64Leq(kHOP * mStft.hops, mStft.pushed)
    /\ mStft.avail = kHOP * mStft.hops - mStft.popped

\* the ring cell the i-th emitted sample of the pop comes from
PopIdx(i) == (mOlaRead + i - 1) % kOlaCap

\* the window squares summed in the cell exceed 1e-8: one of them is
\* sin^4(pi j / 511) with 2 <= j <= 509
C19_NormLarge(cell) == \E c \in cell : c[2] >= 2 /\ c[2] <= 509

C19_Emitted ==
    \A i \in 1..stc'.ret :
        LET o == Cell(mOlaBuf, PopIdx(i))
            n == Cell(mNormBuf, PopIdx(i))
        IN  /\ C19_NormLarge(n)
                 => stc'.out[i] = [div |-> TRUE, ola |-> o, norm |-> n]
            /\ ~C19_NormLarge(n) => ~stc'.out[i].div /\ stc'.out[i].ola = {}
            /\ Cell(mOlaBuf', PopIdx(i)) = {}
            /\ Cell(mNormBuf', PopIdx(i)) = {}

C19_OthersKept ==
    LET emitted == {PopIdx(i) : i \in 1..stc'.ret}
    IN  /\ \A idx \in (DOMAIN mOlaBuf \cup DOMAIN mOlaBuf') \ emitted :
              Cell(mOlaBuf', idx) = Cell(mOlaBuf, idx)
        /\ \A idx \in (DOMAIN mNormBuf \cup DOMAIN mNormBuf') \ emitted :
              Cell(mNormBuf', idx) = Cell(mNormBuf, idx)

\* C19: every sample popTimeDomain emits is mOlaBuf[idx] / mNormBuf[idx]
\* when mNormBuf[idx] > 1e-8 and 0 otherwise, so nothing is divided by a
\* norm <= 1e-8 (also right after construction and during warm-up); after
\* the call both cells of every emitted index are zero and no other cell
\* has changed.
C19_Normalization ==
    [][IsPop => C19_Emitted /\ C19_OthersKept]_vars

\* the first pop after the first hop: the two leading cells, whose norm is
\* hann(0)^2 and hann(1)^2, came out as 0 and the third was divided; the
\* cells are cleared and the rest of the block is still in the ring
C19_Witness ==
    /\ stc.pc = "o_ret"
    /\ stc.ret >= 3
    /\ mStft.hops = 1
    /\ mStft.popped = stc.ret
    /\ ~stc.out[1].div
    /\ ~stc.out[2].div
    /\ stc.out[3] = [div |-> TRUE, ola |-> {<<0, 2, 0>>}, norm |-> {<<0, 2>>}]
    /\ 2 \notin DOMAIN mNormBuf
    /\ 2 \notin DOMAIN mOlaBuf
    /\ Cell(mNormBuf, kNFFT - 1) = {<<0, kNFFT - 1>>}

----------------------------------------------------------------------------
\* The hop loop of the processing thread (FullDuplexEngine.cpp 166-196) on
\* the content-level StftProcessor: bursts of mono samples go into the mono
\* ring and, while 96 are available, one hop is read, pushed into the
\* processor and 96 samples are popped back.

\* hops the processor takes; the block of the 338th is the first to run
\* over the end of the ring, and the write cursor wraps after the 342nd
MaxHops == 345

\* mStft.pushTimeDomain(mHopIn16.data(), 96)
HopPushFrames == kHOP
\* mStft.popTimeDomain(mHopOut16.data(), 96)
HopPopShort == kHOP - 1
HopPopFrames == kHOP

HopFrame == <<ringVars, callVars, initVars, pullVars, streamVars, threadVars,
              ctl, io, mInRing, mOutRing, mOverflows, tally,
              resVars, starts, reads, pulls>>

\* the engine has just started at 48 kHz; the processor is as constructed
InitHopSpec ==
    /\ InitPipeSpec
    /\ streamCfg.sr = 48000

\* the thread is in the burst loop and not between the push and the pop of
\* a hop
HopLoopTop == stc.pc = "idle" /\ stc.op # "push"

\* mMid16kMono.writeInterleaved(mMono16.data(), out16), reached when the
\* hop loop of the previous burst has ended
MonoWrite ==
    /\ HopLoopTop
    /\ RbAvail(mMid16kMono) < kHOP
    /\ mStft.hops < MaxHops
    /\ mMid16kMono' = RbWrite(mMid16kMono,
                              processDown3(streamCfg.fpb,
                                           CDiv(streamCfg.fpb, 3)))
    /\ UNCHANGED <<HopFrame, mStft, olaVars, histVars>>

\* while (mMid16kMono.availableToRead() >= 96): read 96 samples and call
\* pushTimeDomain with them
HopPush ==
    /\ HopLoopTop
    /\ RbAvail(mMid16kMono) >= kHOP
    /\ mMid16kMono' = RbRead(mMid16kMono, kHOP)
    /\ mStft' = [mStft EXCEPT !.pushed = mStft.pushed + HopPushFrames]
    /\ stc' = [IdleStc EXCEPT !.pc = "p_loop", !.op = "push",
                              !.n = HopPushFrames,
                              !.calls = stc.calls + 1,
                              !.h0 = mStft.hops]
    /\ UNCHANGED <<HopFrame, mOlaBuf, mNormBuf, mOlaWrite, mOlaRead,
                   histVars>>

\* pushTimeDomain has returned: popTimeDomain(mHopOut16.data(), 96)
HopPop ==
    /\ stc.pc = "idle"
    /\ stc.op = "push"
    /\ LET want == Min(HopPopFrames, mStft.avail)
           cells == PopCells(mOlaRead, want)
       IN  /\ stc' = [IdleStc EXCEPT
                        !.pc = "o_ret", !.op = "pop", !.n = HopPopFrames,
                        !.ret = want,
                        !.out = [i \in 1..want |->
                                   Emit(Cell(mOlaBuf, OlaIndex(mOlaRead + i - 1)),
                                        Cell(mNormBuf, OlaIndex(mOlaRead + i - 1)))],
                        !.calls = stc.calls + 1]
           /\ mOlaBuf' = Cleared(mOlaBuf, cells)
           /\ mNormBuf' = Cleared(mNormBuf, cells)
           /\ mOlaRead' = OlaIndex(mOlaRead + want)
           /\ mStft' = [mStft EXCEPT !.avail = mStft.avail - want,
                                     !.popped = mStft.popped + want]
    /\ UNCHANGED <<StftFrame, mOlaWrite, histVars>>

NextHop ==
    \/ MonoWrite
    \/ HopPush \/ PushTake \/ PushHop \/ PushReturn
    \/ HopPop \/ PopReturn

SpecHop == InitHopSpec /\ [][NextHop]_vars

\* position of a contribution in the unwrapped output signal
AbsPos(c) == kHOP * c[1] + c[2]

\* every contribution held in cell idx of a ring belongs to position pos
C20_OnlyAt(buf, idx, pos) == \A c \in Cell(buf, idx) : AbsPos(c) = pos

\* the 512 cells the hop about to be added goes into hold nothing but
\* earlier hops' shares of the same output samples
C20_RegionFree ==
    stc.pc = "p_hop" =>
        \A i \in 0..(kNFFT - 1) :
            /\ C20_OnlyAt(mOlaBuf, OlaIndex(mOlaWrite + i),
                          kHOP * mStft.hops + i)
            /\ C20_OnlyAt(mNormBuf, OlaIndex(mOlaWrite + i),
                          kHOP * mStft.hops + i)

\* no cell ever mixes two laps, and what it holds has not been emitted
C20_OneLap ==
    /\ \A idx \in DOMAIN mOlaBuf : \A c \in mOlaBuf[idx] :
          /\ AbsPos(c) % kOlaCap = idx
          /\ AbsPos(c) >= mStft.popped
          /\ AbsPos(c) < mStft.popped + kOlaCap
    /\ \A idx \in DOMAIN mNormBuf : \A c \in mNormBuf[idx] :
          /\ AbsPos(c) % kOlaCap = idx
          /\ AbsPos(c) >= mStft.popped
          /\ AbsPos(c) < mStft.popped + kOlaCap

\* C20: in the pipeline mAvail is 0 before every push and never exceeds 96,
\* so the unread backlog plus 512 never exceeds the ring size, and the 512
\* cells a hop adds into never hold un-emitted data of a previous lap.
C20_NeverOverrun ==
    /\ (HopLoopTop \/ stc.pc = "p_hop") => mStft.avail = 0
    /\ mStft.avail >= 0
    /\ mStft.avail <= kHOP
    /\ mStft.avail = (mOlaWrite - mOlaRead) % kOlaCap
    /\ mStft.avail + kNFFT <= kOlaCap
    /\ C20_RegionFree
    /\ C20_OneLap

\* a hop whose block went over the end of the ring has been added and
\* popped: cell 0 now holds only that hop's share of position 32768
C20_Witness ==
    LET k == mStft.hops - 1
    IN  /\ HopLoopTop
        /\ stc.op = "pop"
        /\ stc.ret = kHOP
        /\ kHOP * k < kOlaCap
        /\ kHOP * k + kNFFT > kOlaCap
        /\ Cell(mOlaBuf, 0) = {<<k, kOlaCap - kHOP * k, InputAt(kOlaCap - (kNFFT - kHOP))>>}
        /\ Cell(mNormBuf, 0) = {<<k, kOlaCap - kHOP * k>>}

----------------------------------------------------------------------------
\* Resampler3x (Resampler3x.h): one object, its mode, and process() calls
\* on buffers of samples.  Samples are integers; a produced sample is kept
\* as three times its value, so that a third of a sum is an integer.

\* longest input buffer and largest outMaxFrames handed to process()
MaxInFrames == 6
MaxOutFrames == 7

\* values of the input samples
Samples == {0, 1}

ResamplerModes == {"DownBy3", "UpBy3"}

InBuffers == UNION {[1..n -> Samples] : n \in 0..MaxInFrames}

\* out[g] = (s0 + s1 + s2) * (1.0f/3.0f) for the g-th group (g from 0),
\* times three
Down3FirstOnly(in, g) == 3 * in[3 * g + 1]
Down3Sample(in, g) == in[3 * g + 1] + in[3 * g + 2] + in[3 * g + 3]

\* the samples processDown3 writes to out
Down3Out(in, inFrames, outMax) ==
    [j \in 1..processDown3(inFrames, outMax) |-> Down3Sample(in, j - 1)]

\* x1 = (i + 1 < inFrames) ? in[i + 1] : x0, for i from 0
Up3Next(in, inFrames, i) == IF i + 1 < inFrames THEN in[i + 2] ELSE in[i + 1]

\* out[3i] = x0, out[3i+1] = x0 + d, out[3i+2] = x0 + 2d with
\* d = (x1 - x0) / 3, times three; k is the place in the triplet
Up3Sample(in, inFrames, i, k) ==
    3 * in[i + 1] + k * (Up3Next(in, inFrames, i) - in[i + 1])

\* the samples processUp3 writes to out
Up3Out(in, inFrames, outMax) ==
    [j \in 1..processUp3(inFrames, outMax) |->
        Up3Sample(in, inFrames, (j - 1) \div 3, (j - 1) % 3)]

ResFrame == <<ringVars, callVars, initVars, pullVars, streamVars, threadVars,
              ctl, io, pipeVars, olaVars, histVars, starts, reads, pulls>>

\* a Resampler3x just constructed
InitResSpec ==
    /\ StandaloneUnused
    /\ EngineConstructed

\* setMode(m): mMode = m; reset()
SetMode ==
    /\ rcall.pc = "idle"
    /\ \E m \in ResamplerModes : resamp' = ResamplerReset(m)
    /\ UNCHANGED <<ResFrame, rcall>>

\* reset()
ResetCall ==
    /\ rcall.pc = "idle"
    /\ resamp' = ResamplerReset(resamp.mMode)
    /\ UNCHANGED <<ResFrame, rcall>>

\* process(in, inFrames, out, outMaxFrames) is entered: in holds inFrames
\* samples, or inFrames is not positive
ProcessCall ==
    /\ rcall.pc = "idle"
    /\ \E in \in InBuffers, neg \in {-3, -1, 0}, outMax \in -1..MaxOutFrames :
         rcall' = [IdleRcall EXCEPT
                     !.pc = "body",
                     !.in = in,
                     !.inFrames = IF Len(in) = 0 THEN neg ELSE Len(in),
                     !.outMax = outMax,
                     !.prev0 = resamp.mPrevSample,
                     !.had0 = resamp.mHadPrev]
    /\ UNCHANGED <<ResFrame, resamp>>

\* mMode == DownBy3: processDown3
ProcessDown ==
    /\ rcall.pc = "body"
    /\ resamp.mMode = "DownBy3"
    /\ rcall' = [rcall EXCEPT
                   !.pc = "ret", !.op = "down",
                   !.out = Down3Out(rcall.in, rcall.inFrames, rcall.outMax),
                   !.ret = processDown3(rcall.inFrames, rcall.outMax)]
    /\ UNCHANGED <<ResFrame, resamp>>

\* mMode == UpBy3: processUp3; past the early return, mPrevSample =
\* in[inFrames - 1] and mHadPrev = true
ProcessUp ==
    /\ rcall.pc = "body"
    /\ resamp.mMode = "UpBy3"
    /\ rcall' = [rcall EXCEPT
                   !.pc = "ret", !.op = "up",
                   !.out = Up3Out(rcall.in, rcall.inFrames, rcall.outMax),
                   !.ret = processUp3(rcall.inFrames, rcall.outMax)]
    /\ resamp' = IF rcall.inFrames <= 0 THEN resamp
                 ELSE [resamp EXCEPT
                         !.mPrevSample = rcall.in[rcall.inFrames],
                         !.mHadPrev = TRUE]
    /\ UNCHANGED ResFrame

\* process() returns
ProcessReturn ==
    /\ rcall.pc = "ret"
    /\ rcall' = IdleRcall
    /\ UNCHANGED <<ResFrame, resamp>>

NextRes ==
    \/ SetMode \/ ResetCall
    \/ ProcessCall \/ ProcessDown \/ ProcessUp \/ ProcessReturn

SpecRes == InitResSpec /\ [][NextRes]_vars

\* processDown3 is about to return
DownDone == rcall.pc = "ret" /\ rcall.op = "down"

\* C21: for inFrames a multiple of 3, processDown3 produces exactly
\* min(inFrames / 3, outMax) samples, out[g] is the mean of in[3g],
\* in[3g+1] and in[3g+2] for every produced g, and the resampler state is
\* what it was when the call was entered, whatever the calls before did.
C21_DownBy3 ==
    (DownDone /\ rcall.inFrames % 3 = 0) =>
        /\ rcall.ret = Min(CDiv(rcall.inFrames, 3), rcall.outMax)
        /\ Len(rcall.out) = Max(0, rcall.ret)
        /\ \A g \in 0..(rcall.ret - 1) :
              rcall.out[g + 1] =
                  rcall.in[3 * g + 1] + rcall.in[3 * g + 2] + rcall.in[3 * g + 3]
        /\ resamp.mPrevSample = rcall.prev0
        /\ resamp.mHadPrev = rcall.had0

\* six samples went in and two means came out, outMax not being the limit
C21_Witness ==
    /\ DownDone
    /\ rcall.inFrames = 6
    /\ rcall.ret = 2
    /\ rcall.in = <<1, 0, 0, 1, 1, 0>>
    /\ rcall.out = <<1, 2>>
    /\ rcall.outMax > 2

\* processUp3 is about to return from a call with N >= 1 samples and
\* outMax >= 0
UpDone ==
    /\ rcall.pc = "ret"
    /\ rcall.op = "up"
    /\ rcall.inFrames >= 1
    /\ rcall.outMax >= 0

\* the first output of every produced triplet equals in[i]
C22_TripletHeads ==
    /\ Len(rcall.out) = rcall.ret
    /\ \A i \in 0..(rcall.inFrames - 1) :
          3 * i < rcall.ret => rcall.out[3 * i + 1] = 3 * rcall.in[i + 1]

\* C22 as stated: for N >= 1 and outMax >= 0 processUp3 returns exactly
\* min(3N, outMax), and the first output of every produced triplet equals
\* in[i].
C22_UpLength ==
    UpDone =>
        /\ rcall.ret = Min(3 * rcall.inFrames, rcall.outMax)
        /\ C22_TripletHeads

\* C22 amended: for N >= 1 and outMax >= 0 processUp3 returns the largest
\* multiple of 3 that does not exceed min(3N, outMax) (whole triplets
\* only), and the first output of every produced triplet equals in[i].
C22_UpWholeTriplets ==
    UpDone =>
        /\ rcall.ret % 3 = 0
        /\ rcall.ret <= Min(3 * rcall.inFrames, rcall.outMax)
        /\ rcall.ret + 3 > Min(3 * rcall.inFrames, rcall.outMax)
        /\ C22_TripletHeads

\* two samples went in with room for four: one triplet came out, starting
\* with in[0] and stepping towards in[1]
C22_Witness ==
    /\ UpDone
    /\ rcall.in = <<0, 1>>
    /\ rcall.outMax = 4
    /\ rcall.ret = 3
    /\ rcall.out = <<0, 1, 2>>

----------------------------------------------------------------------------
\* start() is returning true and the processing thread it has spawned has
\* not run yet
JustStarted == AtStartReturn /\ ctl.ret /\ io.pc = "entry"

C23_WitnessFull ==
    /\ JustStarted
    /\ streamCfg.sr = 20
    /\ RbAvail(mOutRing) = mOutRing.cap
    /\ mOutRing.cap < 20 * streamCfg.fpb

----------------------------------------------------------------------------
\* the hop about to be processed is the k-th, k = mHops
AtHop == stc.pc = "p_hop"

\* C24, the frame: when the k-th hop is processed, positions [0, 32) of the
\* analysis frame are zero and position p in [32, 512) holds the input
\* sample of index 96k - 384 + (p - 32), zero before the first sample.
C24_Frame ==
    AtHop =>
        LET frame == AnalysisFrame(mHist384, mHopBuf)
            k == mStft.hops
        IN  /\ \A p \in 0..31 : frame[p + 1] = 0
            /\ \A p \in 32..511 :
                  frame[p + 1] = IF 96 * k - 384 + (p - 32) >= 0
                                   THEN 96 * k - 384 + (p - 32) + 1
                                   ELSE 0

\* with k hops processed the history holds input samples 96k - 384 ...
\* 96k - 1: it moves with the hop count and not while a hop is collected
C24_History ==
    \A i \in 0..383 :
        At(mHist384, i + 1) = IF 96 * mStft.hops - 384 + i >= 0
                            THEN 96 * mStft.hops - 384 + i + 1 ELSE 0

\* C24: when the k-th hop is processed the analysis frame is 32 zeros and
\* then the last 480 samples pushed so far, in order (zero before the first
\* sample); hist384 is rolled only after that hop has been processed,
\* however the input is split across pushTimeDomain calls.
C24_FrameAssembly == C24_Frame /\ C24_History

\* the third hop is about to be processed after pushes that did not end on
\* hop boundaries: the frame starts with the pad and 192 zeros of history
\* and ends with input sample 287
C24_Witness ==
    /\ AtHop
    /\ mStft.hops = 2
    /\ stc.n = 200
    /\ stc.idx < stc.n
    /\ AnalysisFrame(mHist384, mHopBuf)[kNFFT] = 288
    /\ AnalysisFrame(mHist384, mHopBuf)[kPad + 192] = 0
    /\ AnalysisFrame(mHist384, mHopBuf)[kPad + 193] = 1

----------------------------------------------------------------------------
\* the cells of the look-ahead region [mOlaRead, mOlaRead + 416)
LookAhead == {(mOlaRead + i) % kOlaCap : i \in 0..(kNFFT - kHOP - 1)}

\* the hops of a run that never wraps whose block covers output position q,
\* among the first n hops
Covering(q, n) == {k \in 0..(n - 1) : q - kHOP * k >= 0 /\ q - kHOP * k < kNFFT}

\* what those hops add up to at position q in the norm ring
UnwrappedNorm(q, n) == {<<k, q - kHOP * k>> : k \in Covering(q, n)}

\* between hops every cell outside the look-ahead region is zero
C25_OutsideZero ==
    HopLoopTop =>
        /\ DOMAIN mOlaBuf \subseteq LookAhead
        /\ DOMAIN mNormBuf \subseteq LookAhead

\* the 96 cells a hop is the first of its lap to add into start from zero
C25_FreshCells ==
    AtHop =>
        \A i \in (kNFFT - kHOP)..(kNFFT - 1) :
            /\ Cell(mOlaBuf, (mOlaWrite + i) % kOlaCap) = {}
            /\ Cell(mNormBuf, (mOlaWrite + i) % kOlaCap) = {}

\* every sample a pop has produced comes from the accumulations of the
\* run that never wraps
C25_SameAccumulations ==
    (stc.pc = "o_ret") =>
        \A j \in 1..stc.ret :
            LET q == mStft.popped - stc.ret + j - 1
                norm == UnwrappedNorm(q, mStft.hops)
            IN  IF \E c \in norm : c[2] >= 2 /\ c[2] <= 509
                  THEN /\ stc.out[j].div
                       /\ stc.out[j].norm = norm
                       /\ {<<c[1], c[2]>> : c \in stc.out[j].ola} = norm
                  ELSE ~stc.out[j].div

\* C25: with 96 samples popped after every hop, between hops all cells of
\* both rings outside [mOlaRead, mOlaRead + 416) are zero, also after the
\* cursors have wrapped; so the cells a hop is first to add into in a lap
\* start from zero and the output is computed from the same accumulations
\* as in a run that never wraps.
C25_WrapSafety ==
    /\ C25_OutsideZero
    /\ C25_FreshCells
    /\ C25_SameAccumulations

\* the pop that crossed the end of the ring has returned 96 divided
\* samples; the read cursor has wrapped and the look-ahead region is full
C25_Witness ==
    /\ HopLoopTop
    /\ stc.op = "pop"
    /\ stc.ret = kHOP
    /\ mStft.popped > kOlaCap
    /\ mOlaRead < kHOP
    /\ \A j \in 1..kHOP : stc.out[j].div /\ Cardinality(stc.out[j].norm) >= 5
    /\ DOMAIN mOlaBuf = LookAhead

----------------------------------------------------------------------------
\* a pop of the hop loop has produced its samples
HopPopped == stc.pc = "o_ret"

\* index (from 0) in the popped stream of the j-th sample of that pop
EmittedIndex(j) == mStft.popped - stc.ret + j - 1

\* every block summed into the n-th emitted sample put there the input
\* sample of index n - d (zero if there is none yet), or the zero of the
\* frame's pad
DelayIs(d) ==
    HopPopped =>
        \A j \in 1..stc.ret : \A c \in stc.out[j].ola :
            c[3] = IF c[2] >= kPad THEN InputAt(EmittedIndex(j) - d) ELSE 0

\* C26 as stated: the n-th sample emitted by popTimeDomain corresponds to
\* the (n - 272)-th sample pushed, 272 = 480 / 2 + 32.
C26_Delay272 == DelayIs(480 \div 2 + kPad)

\* C26 amended: the n-th sample emitted by popTimeDomain corresponds to the
\* (n - 416)-th sample pushed, 416 = 512 - 96 being the frame length less
\* one hop.
C26_Delay416 == DelayIs(kNFFT - kHOP)

\* the sixth pop has produced emitted samples 480 .. 575: the first is made
\* of input sample 64 and the last of input sample 159
C26_Witness ==
    /\ HopPopped
    /\ stc.ret = kHOP
    /\ mStft.popped = 6 * kHOP
    /\ stc.out[1].div
    /\ \E c \in stc.out[1].ola : c[3] = InputAt(64)
    /\ \E c \in stc.out[kHOP].ola : c[3] = InputAt(159)

----------------------------------------------------------------------------
\* the fixed distance between an emitted sample and the input sample the
\* blocks put at its position
kOlaDelay == kNFFT - kHOP

\* the window is zero at both ends: such a share adds nothing
Weighs(c) == c[2] >= 1 /\ c[2] <= kNFFT - 2

\* every block covering emitted sample j has been added when it is popped,
\* and no later hop covers it
C27_AllAdded(j) ==
    LET q == EmittedIndex(j)
    IN  /\ q < kHOP * mStft.hops
        /\ stc.out[j].div =>
              /\ stc.out[j].norm = UnwrappedNorm(q, mStft.hops)
              /\ {<<c[1], c[2]>> : c \in stc.out[j].ola} =
                     UnwrappedNorm(q, mStft.hops + kNFFT \div kHOP + 1)

\* C27 as stated: every block that adds into a position contributes the
\* same input sample scaled by window^2, at one fixed offset; every block
\* covering a position is added before it is emitted; so every emitted
\* sample with norm above epsilon equals exactly one input sample (or zero
\* before the first input) at that delay.
C27_ExactIdentity ==
    HopPopped =>
        \A j \in 1..stc.ret :
            /\ C27_AllAdded(j)
            /\ \A c \in stc.out[j].ola :
                  Weighs(c) => c[3] = InputAt(EmittedIndex(j) - kOlaDelay)

\* C27 amended: every block that adds into a position contributes, scaled
\* by window^2, the same input sample at one fixed offset, or zero where
\* the position lies in the block's 32-sample zero pad; every block
\* covering a position is added before it is emitted; so every emitted
\* sample with norm above epsilon is that one input sample (or zero before
\* the first input) times the share of the accumulated window^2 that comes
\* from blocks not padding the position, which is all of it for positions
\* no block pads.
C27_IdentityUpToPad ==
    HopPopped =>
        \A j \in 1..stc.ret :
            /\ C27_AllAdded(j)
            /\ \A c \in stc.out[j].ola :
                  c[3] = IF c[2] >= kPad
                           THEN InputAt(EmittedIndex(j) - kOlaDelay) ELSE 0
            /\ EmittedIndex(j) % kHOP >= kPad =>
                  \A c \in stc.out[j].ola :
                      c[3] = InputAt(EmittedIndex(j) - kOlaDelay)

\* the sixth pop: emitted sample 481 sums input sample 65 from five blocks
\* and the pad of the sixth, emitted sample 512 sums input sample 96 from
\* all its five blocks
C27_Witness ==
    /\ HopPopped
    /\ stc.ret = kHOP
    /\ mStft.popped = 6 * kHOP
    /\ stc.out[2].div /\ stc.out[33].div
    /\ <<5, 1, 0>> \in stc.out[2].ola
    /\ <<4, 97, InputAt(65)>> \in stc.out[2].ola
    /\ Cardinality(stc.out[2].ola) = 6
    /\ {c[3] : c \in stc.out[33].ola} = {InputAt(96)}
    /\ Cardinality(stc.out[33].ola) = 5

----------------------------------------------------------------------------
\* the burst sizes and the rate the pipeline is built for
ExpectedBurst == streamCfg.fpb \in {96, 288} /\ streamCfg.sr = 48000

\* a pass of the hop loop that reads a hop and hands it to the STFT
HopPass == io.pc = "hop" /\ mStft' # mStft

\* the mono ring has taken all it was offered, and outside the hop loop it
\* holds less than a hop; the STFT is never left with a part of a hop
C28_MonoLevels ==
    ExpectedBurst =>
        /\ MonoDropped = 0
        /\ RbAvail(mMid16kMono) >= 0
        /\ RbAvail(mMid16kMono) <= mMid16kMono.cap
        /\ io.pc # "hop" => RbAvail(mMid16kMono) < kHOP
        /\ mStft.hopFill = 0

\* the read of a hop takes 96 samples out of the mono ring and the push
\* that follows completes one hop
C28_HopPass ==
    (ExpectedBurst /\ HopPass) =>
        /\ RbAvail(mMid16kMono) - RbAvail(mMid16kMono') = kHOP
        /\ mStft.hopFill = 0
        /\ mStft'.hopFill = 0
        /\ mStft'.hops = mStft.hops + 1
        /\ mStft'.pushed = mStft.pushed + kHOP

\* C28: for fpb = 96 or 288 at 48 kHz the mono ring never overflows, it
\* holds fewer than 96 samples whenever the processing thread finishes a
\* burst, every read of 96 from it returns 96, and mHopFill is 0 whenever
\* pushTimeDomain is entered, so each push of 96 completes exactly one hop.
C28_MonoDiscipline ==
    /\ []C28_MonoLevels
    /\ [][C28_HopPass]_vars

\* with bursts of 96 the thread has finished its fourth burst: one hop went
\* through after the third and 32 samples wait in the mono ring
C28_Witness ==
    /\ ExpectedBurst
    /\ streamCfg.fpb = 96
    /\ io.pc = "gate"
    /\ tally.monoAcc = 4 * 32
    /\ mStft.hops = 1
    /\ RbAvail(mMid16kMono) = 32

----------------------------------------------------------------------------
\* a pass of the hop loop writes what it up-sampled to the output ring
OutWrite == io.pc = "hop" /\ tally'.outReq # tally.outReq

\* C29: for fpb = 96 or 288, once the gate min(input available, output
\* free) >= fpb has passed, every write to the output ring in that pass of
\* the loop is accepted in full: no short write and nothing counted as
\* overflow for it, whatever pullTo calls run meanwhile.
C29_GateSufficiency ==
    [][(streamCfg.fpb \in {96, 288} /\ OutWrite) =>
          /\ tally'.outAcc - tally.outAcc = tally'.outReq - tally.outReq
          /\ mOverflows' = mOverflows]_vars

----------------------------------------------------------------------------
\* the producer has loaded mRead inside availableToRead() and is about to
\* load mWrite, which only it stores to; the consumer likewise has loaded
\* its own mRead and is about to load mWrite
ProducerAsks == prod.pc = "availW"
ConsumerAsks == cons.pc = "availW"

\* C30: availableToRead() and availableToWrite() called by the producer or
\* by the consumer while the other side runs return a value in
\* [0, capacity]; the producer's availableToWrite never exceeds the space
\* truly free and the consumer's availableToRead never exceeds the frames
\* already published.
C30_FlowControlReads ==
    /\ ProducerAsks =>
          /\ availableToRead(prod.r, mWrite) \in 0..mCapacityFrames
          /\ availableToWrite(prod.r, mWrite) \in 0..mCapacityFrames
          /\ availableToWrite(prod.r, mWrite) <=
                 mCapacityFrames - (mWrite - mRead)
    /\ ConsumerAsks =>
          /\ availableToRead(cons.r, mWrite) \in 0..mCapacityFrames
          /\ availableToWrite(cons.r, mWrite) \in 0..mCapacityFrames
          /\ availableToRead(cons.r, mWrite) <= mWrite - mRead

\* the consumer has freed frames since the producer loaded mRead: the
\* producer is about to see less free space than there is, and a full ring
\* as full
C30_Witness ==
    /\ ProducerAsks
    /\ prod.r < mRead
    /\ availableToWrite(prod.r, mWrite) = 0
    /\ mCapacityFrames - (mWrite - mRead) > 0

-----------------------------------------------------------------------------
\* start() has just run one of its sizing steps to the end: a ring init that
\* accepted its arguments (mData.resize, counters back to 0), or the resize
\* of the scratch buffers with the priming writes
SizingStep ==
    /\ ctl.op = "start"
    /\ ctl.pc \in {"s_initIn", "s_initOut", "s_prime", "s_initMid"}
    /\ ctl'.pc \notin {ctl.pc, "startRet"}

\* start() never constructs a second std::thread while mThread is joinable
C31_OneThread == ~terminated

\* running is true only while the processing thread exists
C31_RunningHasThread == mRunning => mThread = "running"

\* no ring is initialised and no scratch buffer resized while the processing
\* thread runs
C31_SizedWhileIdle == SizingStep => mThread # "running"

\* C31: for any sequence of start() and stop() calls made one at a time by
\* the control thread (start() twice without stop(), stop() twice, stop() on
\* an engine that never started included) at most one processing thread
\* exists at any time, running is true only while that thread exists, and
\* rings and scratch buffers are never re-initialised or resized while a
\* processing thread is using them.
C31_Lifecycle ==
    /\ [](C31_OneThread /\ C31_RunningHasThread)
    /\ [][C31_SizedWhileIdle]_vars

====
